---- MODULE Spec2Model ----
(***************************************************************************)
(* Model of the config-parser CLI core (labs/lab02_config_parser_cli):     *)
(* the TypeKind classifier, the JSON and TOML path navigators              *)
(* (get_json_at_path / get_toml_at_path) and the ConfigError exit-code     *)
(* mapping.                                                                *)
(***************************************************************************)
EXTENDS Integers, Sequences, FiniteSets, TLC

\* ------------------------------------------------------------------ bounds
\* longest ValuePath handed to the navigators
MaxPathLen == 3
\* largest index used in an Index segment (indices are 0 .. MaxIndex)
MaxIndex == 2
\* largest value of the opaque detail field carried by a ConfigError variant
MaxDetail == 2

\* keys used in documents and in Key segments
Keys == {"a", "b"}

\* ------------------------------------------------------------ path segments
\* PathSeg::Key(String)
Key(k) == [seg |-> "Key", key |-> k, index |-> 0]

\* PathSeg::Index(usize)
Index(n) == [seg |-> "Index", key |-> "", index |-> n]

Segs == {Key(k) : k \in Keys} \cup {Index(n) : n \in 0..MaxIndex}

RECURSIVE PathsOfLen(_)
PathsOfLen(n) ==
    IF n = 0 THEN {<<>>}
    ELSE {Append(p, s) : p \in PathsOfLen(n - 1), s \in Segs}

\* every ValuePath of at most MaxPathLen segments, the empty one included
Paths == UNION {PathsOfLen(n) : n \in 0..MaxPathLen}

\* ValuePath::push_key
push_key(prefix, k) == Append(prefix, Key(k))

\* ValuePath::push_index
push_index(prefix, n) == Append(prefix, Index(n))

\* is_empty that never reports an empty path
is_empty_Never(path) == FALSE

\* ValuePath::is_empty
is_empty(path) == Len(path) = 0

\* ------------------------------------------------------------- JSON values
\* serde_json::Value.  t is the variant; a Number carries its internal
\* representation n (PosInt(u64) / NegInt(i64) / Float(f64)) and hi, bit 63
\* of a PosInt; an Object is an ordered list of distinct keys with one child
\* per key; an Array is its list of children.
JNode(t, n, hi, keys, kids) ==
    [t |-> t, n |-> n, hi |-> hi, keys |-> keys, kids |-> kids]

JNull == JNode("Null", "-", 0, <<>>, <<>>)
JBool == JNode("Bool", "-", 0, <<>>, <<>>)
JStr == JNode("String", "-", 0, <<>>, <<>>)
JInt == JNode("Number", "PosInt", 0, <<>>, <<>>)
JNeg == JNode("Number", "NegInt", 0, <<>>, <<>>)
JBig == JNode("Number", "PosInt", 1, <<>>, <<>>)
JFloat == JNode("Number", "Float", 0, <<>>, <<>>)
JArr(kids) == JNode("Array", "-", 0, <<>>, kids)
JObj(keys, kids) == JNode("Object", "-", 0, keys, kids)

JLeaves == {JNull, JBool, JStr, JInt, JNeg, JBig, JFloat, JArr(<<>>), JObj(<<>>, <<>>)}

JMid ==
    JLeaves
    \cup {JArr(<<x, JStr>>) : x \in JLeaves}
    \cup {JObj(<<"a">>, <<x>>) : x \in JLeaves}
    \cup {JObj(<<"b", "a">>, <<JInt, x>>) : x \in JLeaves}

\* the JSON documents resolution is run on
JsonDocs ==
    JMid
    \cup {JObj(<<"a">>, <<m>>) : m \in JMid}
    \cup {JObj(<<"a", "b">>, <<JArr(<<JBool>>), m>>) : m \in JMid}
    \cup {JArr(<<m, JNull>>) : m \in JMid}

\* ------------------------------------------------------------- TOML nodes
\* toml_edit::Item / Value / Table in one shape.  it is the Item variant
\* (None, Value, Table, ArrayOfTables); for a Value, vt is the Value variant
\* and date / time say which parts a Datetime carries.  A bare
\* toml_edit::Value is the record of Item::Value around it and a bare
\* toml_edit::Table the record of Item::Table around it: which of the three
\* a position holds is the TomlCursor tag.
TNode(it, vt, date, time, keys, kids) ==
    [it |-> it, vt |-> vt, date |-> date, time |-> time, keys |-> keys, kids |-> kids]

TNone == TNode("None", "-", FALSE, FALSE, <<>>, <<>>)
TVal(vt) == TNode("Value", vt, FALSE, FALSE, <<>>, <<>>)
TBool == TVal("Boolean")
TInt == TVal("Integer")
TFloat == TVal("Float")
TStr == TVal("String")
TDatetime(date, time) == TNode("Value", "Datetime", date, time, <<>>, <<>>)
TArr(kids) == TNode("Value", "Array", FALSE, FALSE, <<>>, kids)
TInl(keys, kids) == TNode("Value", "InlineTable", FALSE, FALSE, keys, kids)
TTable(keys, kids) == TNode("Table", "-", FALSE, FALSE, keys, kids)
TAoT(kids) == TNode("ArrayOfTables", "-", FALSE, FALSE, <<>>, kids)

\* a TOML datetime literal carries a date, a time, or both
TDatetimes == {TDatetime(TRUE, TRUE), TDatetime(TRUE, FALSE), TDatetime(FALSE, TRUE)}

TLeafValues ==
    {TBool, TInt, TFloat, TStr, TArr(<<>>), TInl(<<>>, <<>>)} \cup TDatetimes

TValues ==
    TLeafValues
    \cup {TArr(<<x, TStr>>) : x \in TLeafValues}
    \cup {TInl(<<"a">>, <<x>>) : x \in TLeafValues}
    \cup {TInl(<<"b", "a">>, <<TInt, x>>) : x \in TLeafValues}

TTables ==
    {TTable(<<>>, <<>>)}
    \cup {TTable(<<"a">>, <<x>>) : x \in TLeafValues}
    \cup {TTable(<<"b", "a">>, <<TStr, x>>) : x \in TLeafValues}

\* values held inside values: a = { a = 1 } and [ { a = [true] } ]
TNested ==
    {TInl(<<"a">>, <<TInl(<<"a">>, <<TInt>>)>>),
     TArr(<<TInl(<<"a">>, <<TArr(<<TBool>>)>>)>>)}

TItems ==
    TValues \cup TTables
    \cup {TAoT(<<>>)}
    \cup {TAoT(<<t, TTable(<<>>, <<>>)>>) : t \in TTables}

\* the TOML roots resolution is run on
TomlDocs ==
    TItems \cup {TNone}
    \cup {TTable(<<"a">>, <<m>>) : m \in TItems}
    \cup {TTable(<<"a", "b">>, <<TAoT(<<TTable(<<"a">>, <<TBool>>)>>), m>>) : m \in TItems}
    \cup {TAoT(<<TTable(<<"a">>, <<m>>)>>) : m \in TItems}
    \cup TNested \cup {TTable(<<"a">>, <<m>>) : m \in TNested}

\* ------------------------------------------------------------ TypeKind
TypeKinds ==
    {"Null", "Bool", "Int", "Uint", "Float", "String", "Array", "Object",
     "Date", "Time", "DateTime"}

\* from_json that takes an array for an object
from_json_ArrayAsObject(v) ==
    LET is_i64 == \/ v.n = "NegInt"
                  \/ (v.n = "PosInt" /\ v.hi = 0)
        is_u64 == v.n = "PosInt"
    IN CASE v.t = "Null" -> "Null"
         [] v.t = "Bool" -> "Bool"
         [] v.t = "Number" ->
                IF is_i64 THEN "Int" ELSE IF is_u64 THEN "Uint" ELSE "Float"
         [] v.t = "String" -> "String"
         [] v.t = "Array" -> "Object"
         [] v.t = "Object" -> "Object"

\* from_json that asks is_u64 before is_i64
from_json_UintFirst(v) ==
    LET is_i64 == \/ v.n = "NegInt"
                  \/ (v.n = "PosInt" /\ v.hi = 0)
        is_u64 == v.n = "PosInt"
    IN CASE v.t = "Null" -> "Null"
         [] v.t = "Bool" -> "Bool"
         [] v.t = "Number" ->
                IF is_u64 THEN "Uint" ELSE IF is_i64 THEN "Int" ELSE "Float"
         [] v.t = "String" -> "String"
         [] v.t = "Array" -> "Array"
         [] v.t = "Object" -> "Object"

\* TypeKind::from_json.  Number::is_i64 holds of NegInt and of a PosInt that
\* is at most i64::MAX (bit 63 clear); Number::is_u64 holds of every PosInt.
from_json(v) ==
    LET is_i64 == \/ v.n = "NegInt"
                  \/ (v.n = "PosInt" /\ v.hi = 0)
        is_u64 == v.n = "PosInt"
    IN CASE v.t = "Null" -> "Null"
         [] v.t = "Bool" -> "Bool"
         [] v.t = "Number" ->
                IF is_i64 THEN "Int" ELSE IF is_u64 THEN "Uint" ELSE "Float"
         [] v.t = "String" -> "String"
         [] v.t = "Array" -> "Array"
         [] v.t = "Object" -> "Object"

\* from_toml_value that tests the date part alone before the pair
from_toml_value_DateFirst(v) ==
    CASE v.vt = "Boolean" -> "Bool"
      [] v.vt = "Integer" -> "Int"
      [] v.vt = "Float" -> "Float"
      [] v.vt = "String" -> "String"
      [] v.vt = "Array" -> "Array"
      [] v.vt = "InlineTable" -> "Object"
      [] v.vt = "Datetime" ->
             IF v.date THEN "Date"
             ELSE IF v.time THEN "Time"
             ELSE "DateTime"

\* TypeKind::from_toml_value
from_toml_value(v) ==
    CASE v.vt = "Boolean" -> "Bool"
      [] v.vt = "Integer" -> "Int"
      [] v.vt = "Float" -> "Float"
      [] v.vt = "String" -> "String"
      [] v.vt = "Array" -> "Array"
      [] v.vt = "InlineTable" -> "Object"
      [] v.vt = "Datetime" ->
             LET has_date == v.date
                 has_time == v.time
             IN IF has_date /\ has_time THEN "DateTime"
                ELSE IF has_date THEN "Date"
                ELSE "Time"

\* from_toml_item that takes an array of tables for a table
from_toml_item_AotObject(item) ==
    CASE item.it = "Value" -> from_toml_value(item)
      [] item.it = "Table" -> "Object"
      [] item.it = "ArrayOfTables" -> "Object"
      [] item.it = "None" -> "Null"

\* TypeKind::from_toml_item
from_toml_item(item) ==
    CASE item.it = "Value" -> from_toml_value(item)
      [] item.it = "Table" -> "Object"
      [] item.it = "ArrayOfTables" -> "Array"
      [] item.it = "None" -> "Null"

\* TomlCursor::type_kind: a Table cursor is classified through a fresh, empty
\* Item::Table, whatever the table holds.
TomlCursor_type_kind(cursor) ==
    CASE cursor.c = "Item" -> from_toml_item(cursor.node)
      [] cursor.c = "Value" -> from_toml_value(cursor.node)
      [] cursor.c = "Table" -> from_toml_item(TTable(<<>>, <<>>))

\* TomlAt::type_kind that classifies a Table through a fresh array of tables
TomlAt_type_kind_TableAsArray(at) ==
    CASE at.c = "Item" -> from_toml_item(at.node)
      [] at.c = "Value" -> from_toml_value(at.node)
      [] at.c = "Table" -> from_toml_item(TAoT(<<>>))

\* TomlAt::type_kind
TomlAt_type_kind(at) ==
    CASE at.c = "Item" -> from_toml_item(at.node)
      [] at.c = "Value" -> from_toml_value(at.node)
      [] at.c = "Table" -> from_toml_item(TTable(<<>>, <<>>))

\* ------------------------------------------------------------- PathError
PathErr(tag, prefix, key, index, len, found) ==
    [tag |-> tag, prefix |-> prefix, key |-> key, index |-> index,
     len |-> len, found |-> found]

\* no result yet
NoResult == PathErr("none", <<>>, "", 0, 0, "-")

\* Ok(..): the resolved node is kept apart, in out
OkResult == PathErr("Ok", <<>>, "", 0, 0, "-")

\* PathError::EmptyPath
EmptyPath == PathErr("EmptyPath", <<>>, "", 0, 0, "-")

\* PathError::not_object
not_object(prefix, key, found) == PathErr("NotAnObject", prefix, key, 0, 0, found)

\* PathError::not_array
not_array(prefix, index, found) == PathErr("NotAnArray", prefix, "", index, 0, found)

\* PathError::key_not_found
key_not_found(prefix, key) == PathErr("KeyNotFound", prefix, key, 0, 0, "-")

\* PathError::oob
oob(prefix, index, len) == PathErr("IndexOutOfBounds", prefix, "", index, len, "-")

\* ----------------------------------------------------- container lookups
\* position of key k in an ordered key list, 0 when absent
\* (Map::get / Table::get / InlineTable::get)
KeyPos(keys, k) ==
    IF \E p \in 1..Len(keys) : keys[p] = k
    THEN CHOOSE p \in 1..Len(keys) : keys[p] = k
    ELSE 0

\* one loop iteration ends either with the cursor moved (`cursor = ...`,
\* `prefix.push_*`) or with the function returning Err
Moved(cursor, prefix) == [ok |-> TRUE, cursor |-> cursor, prefix |-> prefix, err |-> NoResult]

Failed(cursor, prefix, err) == [ok |-> FALSE, cursor |-> cursor, prefix |-> prefix, err |-> err]

JsonCursor(node) == [c |-> "Json", node |-> node]

\* ------------------------------------------------------ get_json_at_path
\* JsonKeyStep that pushes the key onto prefix before the lookup
JsonKeyStep_PushFirst(cursor, prefix, k) ==
    LET cur == cursor.node
        pushed == push_key(prefix, k)
    IN IF cur.t = "Object"
       THEN LET p == KeyPos(cur.keys, k) IN
            IF p = 0
            THEN Failed(cursor, prefix, key_not_found(pushed, k))
            ELSE Moved(JsonCursor(cur.kids[p]), pushed)
       ELSE Failed(cursor, prefix, not_object(prefix, k, from_json(cur)))

\* JsonKeyStep that indexes the object (`&cur[k]`), so that a missing key
\* resolves to Null
JsonKeyStep_MissingKeyIsNull(cursor, prefix, k) ==
    LET cur == cursor.node IN
    IF cur.t = "Object"
    THEN LET p == KeyPos(cur.keys, k) IN
         IF p = 0
         THEN Moved(JsonCursor(JNull), push_key(prefix, k))
         ELSE Moved(JsonCursor(cur.kids[p]), push_key(prefix, k))
    ELSE Failed(cursor, prefix, not_object(prefix, k, from_json(cur)))

\* JsonKeyStep that moves to the object's first entry once the key is found
JsonKeyStep_FirstChild(cursor, prefix, k) ==
    LET cur == cursor.node IN
    IF cur.t = "Object"
    THEN LET p == KeyPos(cur.keys, k) IN
         IF p = 0
         THEN Failed(cursor, prefix, key_not_found(prefix, k))
         ELSE Moved(JsonCursor(cur.kids[1]), push_key(prefix, k))
    ELSE Failed(cursor, prefix, not_object(prefix, k, from_json(cur)))

\* the PathSeg::Key arm of the loop of get_json_at_path
JsonKeyStep(cursor, prefix, k) ==
    LET cur == cursor.node IN
    IF cur.t = "Object"
    THEN LET p == KeyPos(cur.keys, k) IN
         IF p = 0
         THEN Failed(cursor, prefix, key_not_found(prefix, k))
         ELSE Moved(JsonCursor(cur.kids[p]), push_key(prefix, k))
    ELSE Failed(cursor, prefix, not_object(prefix, k, from_json(cur)))

\* JsonIndexStep that reports the index where the length belongs
JsonIndexStep_LenIsIndex(cursor, prefix, n) ==
    LET cur == cursor.node IN
    IF cur.t = "Array"
    THEN LET len == Len(cur.kids) IN
         IF n >= len
         THEN Failed(cursor, prefix, oob(prefix, n, n))
         ELSE Moved(JsonCursor(cur.kids[n + 1]), push_index(prefix, n))
    ELSE Failed(cursor, prefix, not_array(prefix, n, from_json(cur)))

\* JsonIndexStep that takes the element after the indexed one (`arr.get(i + 1)`)
JsonIndexStep_NextElement(cursor, prefix, n) ==
    LET cur == cursor.node IN
    IF cur.t = "Array"
    THEN LET len == Len(cur.kids) IN
         IF n + 1 >= len
         THEN Failed(cursor, prefix, oob(prefix, n, len))
         ELSE Moved(JsonCursor(cur.kids[n + 2]), push_index(prefix, n))
    ELSE Failed(cursor, prefix, not_array(prefix, n, from_json(cur)))

\* the PathSeg::Index arm of the loop of get_json_at_path
JsonIndexStep(cursor, prefix, n) ==
    LET cur == cursor.node IN
    IF cur.t = "Array"
    THEN LET len == Len(cur.kids) IN
         IF n >= len
         THEN Failed(cursor, prefix, oob(prefix, n, len))
         ELSE Moved(JsonCursor(cur.kids[n + 1]), push_index(prefix, n))
    ELSE Failed(cursor, prefix, not_array(prefix, n, from_json(cur)))

\* ------------------------------------------------------ get_toml_at_path
TomlCursor(c, node) == [c |-> c, node |-> node]

\* TomlKeyStep where a key missing from an inline table held as an Item is
\* reported as NotAnObject
TomlKeyStep_InlineMissIsNotObject(cursor, prefix, k) ==
    LET node == cursor.node
        p == KeyPos(node.keys, k)
    IN CASE cursor.c = "Item" /\ node.it = "Table" ->
                IF p = 0
                THEN Failed(cursor, prefix, key_not_found(prefix, k))
                ELSE Moved(TomlCursor("Item", node.kids[p]), push_key(prefix, k))
         [] cursor.c = "Item" /\ node.it = "Value" ->
                IF node.vt = "InlineTable"
                THEN IF p = 0
                     THEN Failed(cursor, prefix, not_object(prefix, k, from_toml_value(node)))
                     ELSE Moved(TomlCursor("Value", node.kids[p]), push_key(prefix, k))
                ELSE Failed(cursor, prefix, not_object(prefix, k, from_toml_value(node)))
         [] cursor.c = "Value" ->
                IF node.vt = "InlineTable"
                THEN IF p = 0
                     THEN Failed(cursor, prefix, key_not_found(prefix, k))
                     ELSE Moved(TomlCursor("Value", node.kids[p]), push_key(prefix, k))
                ELSE Failed(cursor, prefix, not_object(prefix, k, from_toml_value(node)))
         [] cursor.c = "Table" ->
                IF p = 0
                THEN Failed(cursor, prefix, key_not_found(prefix, k))
                ELSE Moved(TomlCursor("Item", node.kids[p]), push_key(prefix, k))
         [] OTHER ->
                Failed(cursor, prefix, not_object(prefix, k, from_toml_item(node)))

\* TomlKeyStep where a key applied to a scalar Item is reported as KeyNotFound
TomlKeyStep_ScalarIsMissingKey(cursor, prefix, k) ==
    LET node == cursor.node
        p == KeyPos(node.keys, k)
    IN CASE cursor.c = "Item" /\ node.it = "Table" ->
                IF p = 0
                THEN Failed(cursor, prefix, key_not_found(prefix, k))
                ELSE Moved(TomlCursor("Item", node.kids[p]), push_key(prefix, k))
         [] cursor.c = "Item" /\ node.it = "Value" ->
                IF node.vt = "InlineTable"
                THEN IF p = 0
                     THEN Failed(cursor, prefix, key_not_found(prefix, k))
                     ELSE Moved(TomlCursor("Value", node.kids[p]), push_key(prefix, k))
                ELSE Failed(cursor, prefix, key_not_found(prefix, k))
         [] cursor.c = "Value" ->
                IF node.vt = "InlineTable"
                THEN IF p = 0
                     THEN Failed(cursor, prefix, key_not_found(prefix, k))
                     ELSE Moved(TomlCursor("Value", node.kids[p]), push_key(prefix, k))
                ELSE Failed(cursor, prefix, not_object(prefix, k, from_toml_value(node)))
         [] cursor.c = "Table" ->
                IF p = 0
                THEN Failed(cursor, prefix, key_not_found(prefix, k))
                ELSE Moved(TomlCursor("Item", node.kids[p]), push_key(prefix, k))
         [] OTHER ->
                Failed(cursor, prefix, not_object(prefix, k, from_toml_item(node)))

\* TomlKeyStep where a member of an inline table under a Value cursor is
\* handed on as an Item cursor
TomlKeyStep_ValueMemberAsItem(cursor, prefix, k) ==
    LET node == cursor.node
        p == KeyPos(node.keys, k)
    IN CASE cursor.c = "Item" /\ node.it = "Table" ->
                IF p = 0
                THEN Failed(cursor, prefix, key_not_found(prefix, k))
                ELSE Moved(TomlCursor("Item", node.kids[p]), push_key(prefix, k))
         [] cursor.c = "Item" /\ node.it = "Value" ->
                IF node.vt = "InlineTable"
                THEN IF p = 0
                     THEN Failed(cursor, prefix, key_not_found(prefix, k))
                     ELSE Moved(TomlCursor("Value", node.kids[p]), push_key(prefix, k))
                ELSE Failed(cursor, prefix, not_object(prefix, k, from_toml_value(node)))
         [] cursor.c = "Value" ->
                IF node.vt = "InlineTable"
                THEN IF p = 0
                     THEN Failed(cursor, prefix, key_not_found(prefix, k))
                     ELSE Moved(TomlCursor("Item", node.kids[p]), push_key(prefix, k))
                ELSE Failed(cursor, prefix, not_object(prefix, k, from_toml_value(node)))
         [] cursor.c = "Table" ->
                IF p = 0
                THEN Failed(cursor, prefix, key_not_found(prefix, k))
                ELSE Moved(TomlCursor("Item", node.kids[p]), push_key(prefix, k))
         [] OTHER ->
                Failed(cursor, prefix, not_object(prefix, k, from_toml_item(node)))

\* TomlKeyStep where a sub-table of a table is handed on as a Table cursor
TomlKeyStep_SubTableAsTable(cursor, prefix, k) ==
    LET node == cursor.node
        p == KeyPos(node.keys, k)
    IN CASE cursor.c = "Item" /\ node.it = "Table" ->
                IF p = 0
                THEN Failed(cursor, prefix, key_not_found(prefix, k))
                ELSE Moved(TomlCursor(IF node.kids[p].it = "Table" THEN "Table" ELSE "Item",
                                      node.kids[p]),
                           push_key(prefix, k))
         [] cursor.c = "Item" /\ node.it = "Value" ->
                IF node.vt = "InlineTable"
                THEN IF p = 0
                     THEN Failed(cursor, prefix, key_not_found(prefix, k))
                     ELSE Moved(TomlCursor("Value", node.kids[p]), push_key(prefix, k))
                ELSE Failed(cursor, prefix, not_object(prefix, k, from_toml_value(node)))
         [] cursor.c = "Value" ->
                IF node.vt = "InlineTable"
                THEN IF p = 0
                     THEN Failed(cursor, prefix, key_not_found(prefix, k))
                     ELSE Moved(TomlCursor("Value", node.kids[p]), push_key(prefix, k))
                ELSE Failed(cursor, prefix, not_object(prefix, k, from_toml_value(node)))
         [] cursor.c = "Table" ->
                IF p = 0
                THEN Failed(cursor, prefix, key_not_found(prefix, k))
                ELSE Moved(TomlCursor("Item", node.kids[p]), push_key(prefix, k))
         [] OTHER ->
                Failed(cursor, prefix, not_object(prefix, k, from_toml_item(node)))

\* the PathSeg::Key arm of the loop of get_toml_at_path; the arms are tried
\* in the order of the match
TomlKeyStep(cursor, prefix, k) ==
    LET node == cursor.node
        p == KeyPos(node.keys, k)
    IN CASE cursor.c = "Item" /\ node.it = "Table" ->
                IF p = 0
                THEN Failed(cursor, prefix, key_not_found(prefix, k))
                ELSE Moved(TomlCursor("Item", node.kids[p]), push_key(prefix, k))
         [] cursor.c = "Item" /\ node.it = "Value" ->
                IF node.vt = "InlineTable"
                THEN IF p = 0
                     THEN Failed(cursor, prefix, key_not_found(prefix, k))
                     ELSE Moved(TomlCursor("Value", node.kids[p]), push_key(prefix, k))
                ELSE Failed(cursor, prefix, not_object(prefix, k, from_toml_value(node)))
         [] cursor.c = "Value" ->
                IF node.vt = "InlineTable"
                THEN IF p = 0
                     THEN Failed(cursor, prefix, key_not_found(prefix, k))
                     ELSE Moved(TomlCursor("Value", node.kids[p]), push_key(prefix, k))
                ELSE Failed(cursor, prefix, not_object(prefix, k, from_toml_value(node)))
         [] cursor.c = "Table" ->
                IF p = 0
                THEN Failed(cursor, prefix, key_not_found(prefix, k))
                ELSE Moved(TomlCursor("Item", node.kids[p]), push_key(prefix, k))
         [] OTHER ->
                Failed(cursor, prefix, not_object(prefix, k, from_toml_item(node)))

\* TomlIndexStep where an index applied to a Table cursor is reported as out of
\* bounds of an empty array
TomlIndexStep_TableIsEmptyArray(cursor, prefix, n) ==
    LET node == cursor.node
        len == Len(node.kids)
    IN CASE cursor.c = "Item" /\ node.it = "Value" ->
                IF node.vt = "Array"
                THEN IF n >= len
                     THEN Failed(cursor, prefix, oob(prefix, n, len))
                     ELSE Moved(TomlCursor("Value", node.kids[n + 1]), push_index(prefix, n))
                ELSE Failed(cursor, prefix, not_array(prefix, n, from_toml_value(node)))
         [] cursor.c = "Value" ->
                IF node.vt = "Array"
                THEN IF n >= len
                     THEN Failed(cursor, prefix, oob(prefix, n, len))
                     ELSE Moved(TomlCursor("Value", node.kids[n + 1]), push_index(prefix, n))
                ELSE Failed(cursor, prefix, not_array(prefix, n, from_toml_value(node)))
         [] cursor.c = "Item" /\ node.it = "ArrayOfTables" ->
                IF n >= len
                THEN Failed(cursor, prefix, oob(prefix, n, len))
                ELSE Moved(TomlCursor("Table", node.kids[n + 1]), push_index(prefix, n))
         [] cursor.c = "Table" ->
                Failed(cursor, prefix, oob(prefix, n, 0))
         [] OTHER ->
                Failed(cursor, prefix, not_array(prefix, n, from_toml_item(node)))

\* TomlIndexStep where an array-of-tables element is wrapped as an Item cursor
TomlIndexStep_ElementAsItem(cursor, prefix, n) ==
    LET node == cursor.node
        len == Len(node.kids)
    IN CASE cursor.c = "Item" /\ node.it = "Value" ->
                IF node.vt = "Array"
                THEN IF n >= len
                     THEN Failed(cursor, prefix, oob(prefix, n, len))
                     ELSE Moved(TomlCursor("Value", node.kids[n + 1]), push_index(prefix, n))
                ELSE Failed(cursor, prefix, not_array(prefix, n, from_toml_value(node)))
         [] cursor.c = "Value" ->
                IF node.vt = "Array"
                THEN IF n >= len
                     THEN Failed(cursor, prefix, oob(prefix, n, len))
                     ELSE Moved(TomlCursor("Value", node.kids[n + 1]), push_index(prefix, n))
                ELSE Failed(cursor, prefix, not_array(prefix, n, from_toml_value(node)))
         [] cursor.c = "Item" /\ node.it = "ArrayOfTables" ->
                IF n >= len
                THEN Failed(cursor, prefix, oob(prefix, n, len))
                ELSE Moved(TomlCursor("Item", node.kids[n + 1]), push_index(prefix, n))
         [] cursor.c = "Table" ->
                Failed(cursor, prefix, not_array(prefix, n, TomlCursor_type_kind(cursor)))
         [] OTHER ->
                Failed(cursor, prefix, not_array(prefix, n, from_toml_item(node)))

\* TomlIndexStep that reports the index as the length of an array of tables
TomlIndexStep_AotLenIsIndex(cursor, prefix, n) ==
    LET node == cursor.node
        len == Len(node.kids)
    IN CASE cursor.c = "Item" /\ node.it = "Value" ->
                IF node.vt = "Array"
                THEN IF n >= len
                     THEN Failed(cursor, prefix, oob(prefix, n, len))
                     ELSE Moved(TomlCursor("Value", node.kids[n + 1]), push_index(prefix, n))
                ELSE Failed(cursor, prefix, not_array(prefix, n, from_toml_value(node)))
         [] cursor.c = "Value" ->
                IF node.vt = "Array"
                THEN IF n >= len
                     THEN Failed(cursor, prefix, oob(prefix, n, len))
                     ELSE Moved(TomlCursor("Value", node.kids[n + 1]), push_index(prefix, n))
                ELSE Failed(cursor, prefix, not_array(prefix, n, from_toml_value(node)))
         [] cursor.c = "Item" /\ node.it = "ArrayOfTables" ->
                IF n >= len
                THEN Failed(cursor, prefix, oob(prefix, n, n))
                ELSE Moved(TomlCursor("Table", node.kids[n + 1]), push_index(prefix, n))
         [] cursor.c = "Table" ->
                Failed(cursor, prefix, not_array(prefix, n, TomlCursor_type_kind(cursor)))
         [] OTHER ->
                Failed(cursor, prefix, not_array(prefix, n, from_toml_item(node)))

\* the PathSeg::Index arm of the loop of get_toml_at_path
TomlIndexStep(cursor, prefix, n) ==
    LET node == cursor.node
        len == Len(node.kids)
    IN CASE cursor.c = "Item" /\ node.it = "Value" ->
                IF node.vt = "Array"
                THEN IF n >= len
                     THEN Failed(cursor, prefix, oob(prefix, n, len))
                     ELSE Moved(TomlCursor("Value", node.kids[n + 1]), push_index(prefix, n))
                ELSE Failed(cursor, prefix, not_array(prefix, n, from_toml_value(node)))
         [] cursor.c = "Value" ->
                IF node.vt = "Array"
                THEN IF n >= len
                     THEN Failed(cursor, prefix, oob(prefix, n, len))
                     ELSE Moved(TomlCursor("Value", node.kids[n + 1]), push_index(prefix, n))
                ELSE Failed(cursor, prefix, not_array(prefix, n, from_toml_value(node)))
         [] cursor.c = "Item" /\ node.it = "ArrayOfTables" ->
                IF n >= len
                THEN Failed(cursor, prefix, oob(prefix, n, len))
                ELSE Moved(TomlCursor("Table", node.kids[n + 1]), push_index(prefix, n))
         [] cursor.c = "Table" ->
                Failed(cursor, prefix, not_array(prefix, n, TomlCursor_type_kind(cursor)))
         [] OTHER ->
                Failed(cursor, prefix, not_array(prefix, n, from_toml_item(node)))

\* ------------------------------------------------- the navigators, whole
\* what a navigator returns: the Result and, inside Ok, the node
Returned(result, out) == [result |-> result, out |-> out]

\* the loop of get_json_at_path from segment n on
RECURSIVE JsonWalk(_, _, _, _)
JsonWalk(cursor, prefix, path, n) ==
    IF n > Len(path)
    THEN Returned(OkResult, cursor)
    ELSE LET step == IF path[n].seg = "Key"
                     THEN JsonKeyStep(cursor, prefix, path[n].key)
                     ELSE JsonIndexStep(cursor, prefix, path[n].index)
         IN IF step.ok
            THEN JsonWalk(step.cursor, step.prefix, path, n + 1)
            ELSE Returned(step.err, [c |-> "-", node |-> JNull])

\* get_json_at_path(root, path)
get_json_at_path(root, path) ==
    IF is_empty(path)
    THEN Returned(EmptyPath, [c |-> "-", node |-> JNull])
    ELSE JsonWalk(JsonCursor(root), <<>>, path, 1)

\* the loop of get_toml_at_path from segment n on
RECURSIVE TomlWalk(_, _, _, _)
TomlWalk(cursor, prefix, path, n) ==
    IF n > Len(path)
    THEN Returned(OkResult, cursor)
    ELSE LET step == IF path[n].seg = "Key"
                     THEN TomlKeyStep(cursor, prefix, path[n].key)
                     ELSE TomlIndexStep(cursor, prefix, path[n].index)
         IN IF step.ok
            THEN TomlWalk(step.cursor, step.prefix, path, n + 1)
            ELSE Returned(step.err, [c |-> "-", node |-> JNull])

\* get_toml_at_path(root, path)
get_toml_at_path(root, path) ==
    IF is_empty(path)
    THEN Returned(EmptyPath, [c |-> "-", node |-> JNull])
    ELSE TomlWalk(TomlCursor("Item", root), <<>>, path, 1)

\* ------------------------------------------------------------ ConfigError
\* a ConfigError: its category (the ConfigError variant), the variant of the
\* wrapped error and detail, standing for the contents of the variant's fields
ConfigError(cat, variant, detail) == [cat |-> cat, variant |-> variant, detail |-> detail]

UsageVariants ==
    {"MissingFlag", "InvalidChoice", "ConflictingFlags", "MissingArgument",
     "InvalidPathSyntax"}

FileIoVariants == {"ReadFailed", "WriteFailed", "TempCreateFailed", "AtomicReplaceFailed"}

ParseVariants ==
    {"UnexpectedToken", "UnexpectedEof", "UnterminatedString", "InvalidEscape",
     "TrailingContent", "SyntaxError", "ForeignParseError"}

PathVariants ==
    {"EmptyPath", "NotAnObject", "NotAnArray", "NotAContainer", "KeyNotFound",
     "IndexOutOfBounds", "InvalidSegment", "Unsupported"}

TypeVariants ==
    {"TypeMismatch", "NumberOutOfRange", "InvalidEnumVariant", "InvalidPattern",
     "ArrayElementTypeMismatch", "ObjectFieldTypeMismatch", "NullNotAllowed"}

NotSupportedVariants ==
    {"Format", "Command", "Option", "Feature", "Platform", "Version", "Combination"}

\* the variants of ConfigError and, for each, the variants of the error it wraps
VariantsOf ==
    [Usage |-> UsageVariants, FileIO |-> FileIoVariants, Parse |-> ParseVariants,
     Path |-> PathVariants, Type |-> TypeVariants, NotSupported |-> NotSupportedVariants]

Categories == DOMAIN VariantsOf

ConfigErrors ==
    UNION {{ConfigError(cat, v, d) : v \in VariantsOf[cat], d \in 0..MaxDetail} :
           cat \in Categories}

\* no error raised
NoError == ConfigError("-", "-", 0)

\* exit_code that files Parse errors under the Path code
exit_code_ParseAsPath(e) ==
    CASE e.cat = "Usage" -> 2
      [] e.cat = "FileIO" -> 3
      [] e.cat = "Parse" -> 4
      [] e.cat = "Path" -> 4
      [] e.cat = "Type" -> 5
      [] e.cat = "NotSupported" -> 6

\* ConfigError::exit_code (errors/mod.rs)
exit_code(e) ==
    CASE e.cat = "Usage" -> 2
      [] e.cat = "FileIO" -> 3
      [] e.cat = "Parse" -> 3
      [] e.cat = "Path" -> 4
      [] e.cat = "Type" -> 5
      [] e.cat = "NotSupported" -> 6

\* ConfigError::exit_code of the two-category draft (errors.rs)
exit_code_draft(e) ==
    CASE e.cat = "Usage" -> 2
      [] e.cat = "FileIO" -> 3

\* ------------------------------------------------------------ FileIoError
\* std::io::ErrorKind: the six kinds io_reason_and_hint names and three of
\* the kinds behind its `_` arm
NamedIoKinds ==
    {"NotFound", "PermissionDenied", "IsADirectory", "WouldBlock", "AlreadyExists",
     "InvalidInput"}

IoKinds == NamedIoKinds \cup {"TimedOut", "Interrupted", "StorageFull"}

\* kind.to_string(): the Display of io::ErrorKind
ErrorKind_to_string(k) ==
    CASE k = "NotFound" -> "entity not found"
      [] k = "PermissionDenied" -> "permission denied"
      [] k = "IsADirectory" -> "is a directory"
      [] k = "WouldBlock" -> "operation would block"
      [] k = "AlreadyExists" -> "entity already exists"
      [] k = "InvalidInput" -> "invalid input parameter"
      [] k = "TimedOut" -> "timed out"
      [] k = "Interrupted" -> "operation interrupted"
      [] k = "StorageFull" -> "no storage space"

\* the (reason, hint) pair
ReasonHint(reason, hint) == [reason |-> reason, hint |-> hint]

\* io_reason_and_hint that names the path in the reason of a missing file
io_reason_and_hint_PathInReason(k, p, op) ==
    CASE k = "NotFound" ->
            ReasonHint("No such file or directory: " \o p,
                       "Check the path or create it first: " \o p)
      [] k = "PermissionDenied" ->
            ReasonHint("Permission denied",
                       "Check file permissions or run with appropriate rights.")
      [] k = "IsADirectory" ->
            ReasonHint("Path is a directory, not a file",
                       "Use a regular file path for this operation.")
      [] k = "WouldBlock" ->
            ReasonHint("Resource temporarily unavailable",
                       "Try again or ensure no other process is locking the file.")
      [] k = "AlreadyExists" ->
            ReasonHint("File already exists",
                       "Remove existing temp file or choose a different output path.")
      [] k = "InvalidInput" ->
            ReasonHint("Invalid path or parameters",
                       "Verify the path string and encoding.")
      [] OTHER ->
            ReasonHint(ErrorKind_to_string(k), "Re-run with --debug for more details.")

\* io_reason_and_hint(kind, path, op)
io_reason_and_hint(k, p, op) ==
    CASE k = "NotFound" ->
            ReasonHint("No such file or directory",
                       "Check the path or create it first: " \o p)
      [] k = "PermissionDenied" ->
            ReasonHint("Permission denied",
                       "Check file permissions or run with appropriate rights.")
      [] k = "IsADirectory" ->
            ReasonHint("Path is a directory, not a file",
                       "Use a regular file path for this operation.")
      [] k = "WouldBlock" ->
            ReasonHint("Resource temporarily unavailable",
                       "Try again or ensure no other process is locking the file.")
      [] k = "AlreadyExists" ->
            ReasonHint("File already exists",
                       "Remove existing temp file or choose a different output path.")
      [] k = "InvalidInput" ->
            ReasonHint("Invalid path or parameters",
                       "Verify the path string and encoding.")
      [] OTHER ->
            ReasonHint(ErrorKind_to_string(k), "Re-run with --debug for more details.")

\* a FileIoError: its variant and fields (path is final_path for
\* AtomicReplaceFailed, the only variant with a temp_path)
FileIoError(variant, p, temp_path, rh) ==
    [variant |-> variant, path |-> p, temp_path |-> temp_path,
     reason |-> rh.reason, hint |-> rh.hint]

NoFileIoError == FileIoError("-", "-", "-", ReasonHint("-", "-"))

\* FileIoError::read_failed
read_failed(p, k) ==
    FileIoError("ReadFailed", p, "-", io_reason_and_hint(k, p, "read"))

\* FileIoError::write_failed
write_failed(p, k) ==
    FileIoError("WriteFailed", p, "-", io_reason_and_hint(k, p, "write"))

\* FileIoError::temp_create_failed
temp_create_failed(p, k) ==
    FileIoError("TempCreateFailed", p, "-", io_reason_and_hint(k, p, "temp file create"))

\* FileIoError::atomic_replace_failed
atomic_replace_failed(temp_path, final_path, k) ==
    FileIoError("AtomicReplaceFailed", final_path, temp_path,
                io_reason_and_hint(k, final_path, "atomic replace"))

\* -------------------------------------------------------------- TypeError
\* a TypeError::TypeMismatch and its fields
TypeErr(tag, p, expected, found) ==
    [tag |-> tag, path |-> p, expected |-> expected, found |-> found]

NoTypeError == TypeErr("-", <<>>, "-", "-")

\* TypeError::mismatch
TypeError_mismatch(p, expected, found) == TypeErr("TypeMismatch", p, expected, found)

\* PathError::NotAContainer
NotAContainer(prefix, found) == PathErr("NotAContainer", prefix, "", 0, 0, found)

\* ------------------------------------------------------------------ state
VARIABLES
    backend,   \* "json" or "toml": which navigator runs
    root,      \* the document: a serde_json::Value or a toml_edit::Item
    path,      \* the ValuePath to resolve
    pc,        \* "call", "loop", "done", "classified"; "raised", "exited" for an error exit
    i,         \* 1-based position in path of the segment the loop is at
    cursor,    \* cur (JSON) / cursor (TOML)
    prefix,    \* the local prefix
    result,    \* what the navigator returned: Ok or a PathError
    out,       \* the node returned inside Ok
    kind,      \* TypeKind of the returned node
    cfgerr,    \* the ConfigError the invocation ends with
    code,      \* process exit code, -1 while the process runs
    src,       \* a text handed in: a key-path string, or the source of a document
    text,      \* a text produced: a rendered ValuePath, a snippet, the serialized document
    loc,       \* byte offset and (line, column) of a parse error
    disk,      \* the file system: the config file and the temporary file next to it
    cmd,       \* the subcommand run on the document and what it returned
    io         \* the I/O fault met by a file operation

\* the state of the text utilities, of the commands and of persistence
ext == <<src, text, loc, disk, cmd, io>>

vars == <<backend, root, path, pc, i, cursor, prefix, result, out, kind, cfgerr, code, ext>>

\* a text, as the sequence of its characters; NoText is the empty string
NoText == <<>>

NoLoc == [span |-> FALSE, offset |-> 0, line |-> 0, column |-> 0]

\* no file system in play
NoDisk == [path |-> "-", file |-> <<>>, temp |-> <<>>, has_temp |-> FALSE]

\* no subcommand in play.  op is the subcommand, value and coerce the VALUE
\* and the coercion request of a set, doc0 the document before the command
\* ran, status the category of what the last run returned and first that of
\* the run before it, terr a Type error returned, listed the children a list
\* returned
NoCmd ==
    [op |-> "-", status |-> "-", value |-> JNull, coerce |-> FALSE, doc0 |-> JNull,
     first |-> "-", terr |-> NoTypeError, listed |-> <<>>]

\* no I/O fault met
NoIo == [kind |-> "-", err |-> NoFileIoError]

\* nothing but a navigator runs
ExtIdle ==
    /\ src = NoText /\ text = NoText /\ loc = NoLoc
    /\ disk = NoDisk /\ cmd = NoCmd /\ io = NoIo

NoCursor == [c |-> "-", node |-> JNull]

\* a call of get_json_at_path / get_toml_at_path on a document and a path
Init ==
    /\ \/ backend = "json" /\ root \in JsonDocs
       \/ backend = "toml" /\ root \in TomlDocs
    /\ path \in Paths
    /\ pc = "call"
    /\ i = 0
    /\ cursor = NoCursor
    /\ prefix = <<>>
    /\ result = NoResult
    /\ out = NoCursor
    /\ kind = "-"
    /\ cfgerr = NoError
    /\ code = -1
    /\ ExtIdle

\* get_json_at_path up to the loop: the empty-path check, then cur and prefix
JsonEnter ==
    /\ pc = "call" /\ backend = "json"
    /\ IF is_empty(path)
       THEN /\ result' = EmptyPath
            /\ pc' = "done"
            /\ UNCHANGED <<i, cursor, prefix>>
       ELSE /\ cursor' = JsonCursor(root)
            /\ prefix' = <<>>
            /\ i' = 1
            /\ pc' = "loop"
            /\ UNCHANGED result
    /\ UNCHANGED <<backend, root, path, out, kind, cfgerr, code, ext>>

\* one loop iteration: the step either moves the cursor or returns Err
Iterate(step) ==
    /\ IF step.ok
       THEN /\ cursor' = step.cursor
            /\ prefix' = step.prefix
            /\ i' = i + 1
            /\ UNCHANGED <<pc, result>>
       ELSE /\ result' = step.err
            /\ pc' = "done"
            /\ UNCHANGED <<i, cursor, prefix>>
    /\ UNCHANGED <<backend, root, path, out, kind, cfgerr, code, ext>>

\* loop iteration of get_json_at_path on a Key segment
JsonKey ==
    /\ pc = "loop" /\ backend = "json"
    /\ i <= Len(path) /\ path[i].seg = "Key"
    /\ Iterate(JsonKeyStep(cursor, prefix, path[i].key))

\* loop iteration of get_json_at_path on an Index segment
JsonIndex ==
    /\ pc = "loop" /\ backend = "json"
    /\ i <= Len(path) /\ path[i].seg = "Index"
    /\ Iterate(JsonIndexStep(cursor, prefix, path[i].index))

\* end of the loop of get_json_at_path: Ok(cur)
JsonReturn ==
    /\ pc = "loop" /\ backend = "json"
    /\ i > Len(path)
    /\ result' = OkResult
    /\ out' = cursor
    /\ pc' = "done"
    /\ UNCHANGED <<backend, root, path, i, cursor, prefix, kind, cfgerr, code, ext>>

\* get_toml_at_path up to the loop
TomlEnter ==
    /\ pc = "call" /\ backend = "toml"
    /\ IF is_empty(path)
       THEN /\ result' = EmptyPath
            /\ pc' = "done"
            /\ UNCHANGED <<i, cursor, prefix>>
       ELSE /\ cursor' = TomlCursor("Item", root)
            /\ prefix' = <<>>
            /\ i' = 1
            /\ pc' = "loop"
            /\ UNCHANGED result
    /\ UNCHANGED <<backend, root, path, out, kind, cfgerr, code, ext>>

\* loop iteration of get_toml_at_path on a Key segment
TomlKey ==
    /\ pc = "loop" /\ backend = "toml"
    /\ i <= Len(path) /\ path[i].seg = "Key"
    /\ Iterate(TomlKeyStep(cursor, prefix, path[i].key))

\* loop iteration of get_toml_at_path on an Index segment
TomlIndex ==
    /\ pc = "loop" /\ backend = "toml"
    /\ i <= Len(path) /\ path[i].seg = "Index"
    /\ Iterate(TomlIndexStep(cursor, prefix, path[i].index))

\* end of the loop of get_toml_at_path: the cursor becomes a TomlAt
TomlReturn ==
    /\ pc = "loop" /\ backend = "toml"
    /\ i > Len(path)
    /\ result' = OkResult
    /\ out' = cursor
    /\ pc' = "done"
    /\ UNCHANGED <<backend, root, path, i, cursor, prefix, kind, cfgerr, code, ext>>

\* TypeKind::from_json applied to the resolved JSON node
JsonClassify ==
    /\ pc = "done" /\ backend = "json" /\ result.tag = "Ok"
    /\ kind' = from_json(out.node)
    /\ pc' = "classified"
    /\ UNCHANGED <<backend, root, path, i, cursor, prefix, result, out, cfgerr, code, ext>>

\* TomlAt::type_kind applied to the resolved TOML position
TomlClassify ==
    /\ pc = "done" /\ backend = "toml" /\ result.tag = "Ok"
    /\ kind' = TomlAt_type_kind(out)
    /\ pc' = "classified"
    /\ UNCHANGED <<backend, root, path, i, cursor, prefix, result, out, cfgerr, code, ext>>

\* the process exits with ConfigError::exit_code
Exit ==
    /\ pc = "raised"
    /\ code' = exit_code(cfgerr)
    /\ pc' = "exited"
    /\ UNCHANGED <<backend, root, path, i, cursor, prefix, result, out, kind, cfgerr, ext>>

Next ==
    \/ JsonEnter \/ JsonKey \/ JsonIndex \/ JsonReturn \/ JsonClassify
    \/ TomlEnter \/ TomlKey \/ TomlIndex \/ TomlReturn \/ TomlClassify

Spec == Init /\ [][Next]_vars

\* an invocation that ends with an error of any category and variant
InitExit ==
    /\ cfgerr \in ConfigErrors
    /\ pc = "raised"
    /\ code = -1
    /\ backend = "json" /\ root = JNull /\ path = <<>>
    /\ i = 0 /\ cursor = NoCursor /\ prefix = <<>>
    /\ result = NoResult /\ out = NoCursor /\ kind = "-"
    /\ ExtIdle

NextExit == Exit

SpecExit == InitExit /\ [][NextExit]_vars

\* ------------------------------------------------------------ properties
\* the navigator of the running backend, as a function of document and path
Resolve(doc, p) ==
    IF backend = "json" THEN get_json_at_path(doc, p) ELSE get_toml_at_path(doc, p)

\* the navigator has returned a failure other than EmptyPath
ResolutionFailed == pc = "done" /\ result.tag \notin {"Ok", "EmptyPath"}

\* n is the first segment of path (1-based) that fails walking left to right:
\* the n-1 segments before it resolve and the first n do not
FirstFailing(n) ==
    /\ n \in 1..Len(path)
    /\ Resolve(root, SubSeq(path, 1, n)).result.tag # "Ok"
    /\ \A m \in 1..(n - 1) : Resolve(root, SubSeq(path, 1, m)).result.tag = "Ok"

\* the loop is about to apply segment path[i]
AtSegment(kindOfSeg) == pc = "loop" /\ i <= Len(path) /\ path[i].seg = kindOfSeg

\* the segments walked before the one the loop is at
Walked == SubSeq(path, 1, i - 1)

\* the current node is a JSON object, a TOML table, an inline table or an
\* array-of-tables element
ObjectLike(cur) ==
    \/ cur.c = "Json" /\ cur.node.t = "Object"
    \/ cur.c = "Item" /\ cur.node.it = "Table"
    \/ cur.c \in {"Item", "Value"} /\ cur.node.it = "Value" /\ cur.node.vt = "InlineTable"
    \/ cur.c = "Table"

\* the current node is a JSON array, a TOML array value or an array of tables
ArrayLike(cur) ==
    \/ cur.c = "Json" /\ cur.node.t = "Array"
    \/ cur.c \in {"Item", "Value"} /\ cur.node.it = "Value" /\ cur.node.vt = "Array"
    \/ cur.c = "Item" /\ cur.node.it = "ArrayOfTables"

\* the TypeKind classification of the node under a cursor
KindOf(cur) ==
    IF cur.c = "Json" THEN from_json(cur.node) ELSE TomlCursor_type_kind(cur)

HasKey(node, k) == \E p \in 1..Len(node.keys) : node.keys[p] = k

EntryOf(node, k) == node.kids[CHOOSE p \in 1..Len(node.keys) : node.keys[p] = k]

\* C1: a resolution failure on a non-empty path carries as prefix exactly the
\* segments before the first failing segment, in order, and the error is the
\* one the navigator returns on the path cut after the failing segment, so
\* no later segment influences it.
C1_PrefixIsSegmentsBeforeFailure ==
    ResolutionFailed =>
        \E n \in 1..Len(path) :
            /\ FirstFailing(n)
            /\ result.prefix = SubSeq(path, 1, n - 1)
            /\ result = Resolve(root, SubSeq(path, 1, n)).result

\* C1 witness: a failure at the third segment, after two segments resolved
C1_Witness ==
    /\ ResolutionFailed
    /\ Len(path) = 3
    /\ Len(result.prefix) = 2
    /\ result.prefix = SubSeq(path, 1, 2)

\* C2: a Key segment k applied to an object-like node without entry k fails
\* with KeyNotFound carrying k and the prefix walked so far; with the entry
\* present the walk continues at that entry.
C2_KeyOnObjectLike ==
    [][(AtSegment("Key") /\ ObjectLike(cursor)) =>
          IF HasKey(cursor.node, path[i].key)
          THEN /\ pc' = "loop"
               /\ i' = i + 1
               /\ cursor'.node = EntryOf(cursor.node, path[i].key)
               /\ result' = NoResult
          ELSE /\ pc' = "done"
               /\ result' = PathErr("KeyNotFound", Walked, path[i].key, 0, 0, "-")]_vars

\* C2 witness: KeyNotFound on an inline table reached through a table
C2_Witness ==
    /\ pc = "done" /\ backend = "toml"
    /\ result.tag = "KeyNotFound"
    /\ result.prefix = <<Key("a")>> /\ result.key = "b"
    /\ cursor.c = "Item" /\ cursor.node.vt = "InlineTable"

\* C3: a Key segment k applied to a node that is not object-like fails with
\* NotAnObject carrying k, the prefix walked so far and the TypeKind of that
\* node, never with KeyNotFound.
C3_KeyOnNonObject ==
    [][(AtSegment("Key") /\ ~ObjectLike(cursor)) =>
          /\ pc' = "done"
          /\ result' = PathErr("NotAnObject", Walked, path[i].key, 0, 0, KindOf(cursor))
          /\ result'.found \in TypeKinds \ {"Object"}]_vars

\* C3 witness: a key applied to an array of tables held in a table
C3_Witness ==
    /\ pc = "done" /\ backend = "toml"
    /\ result.tag = "NotAnObject"
    /\ cursor.c = "Item" /\ cursor.node.it = "ArrayOfTables"
    /\ result.found = "Array"
    /\ Len(result.prefix) = 1

\* C4: an Index segment n applied to an array-like node of length len fails
\* with IndexOutOfBounds carrying the prefix, n and len exactly when
\* n >= len, and otherwise continues at element n.
C4_IndexOnArrayLike ==
    [][(AtSegment("Index") /\ ArrayLike(cursor)) =>
          LET n == path[i].index
              len == Len(cursor.node.kids)
          IN IF n >= len
             THEN /\ pc' = "done"
                  /\ result' = PathErr("IndexOutOfBounds", Walked, "", n, len, "-")
             ELSE /\ pc' = "loop"
                  /\ i' = i + 1
                  /\ cursor'.node = cursor.node.kids[n + 1]
                  /\ result' = NoResult]_vars

\* C4 witness: an index into an empty array fails with len = 0
C4_Witness ==
    /\ pc = "done"
    /\ result.tag = "IndexOutOfBounds"
    /\ ArrayLike(cursor) /\ Len(cursor.node.kids) = 0
    /\ result.len = 0 /\ result.index = 1

\* C5: an Index segment n applied to a node that is not array-like fails with
\* NotAnArray carrying n, the prefix walked so far and the TypeKind of that
\* node, Object for every table-shaped node, never with IndexOutOfBounds.
C5_IndexOnNonArray ==
    [][(AtSegment("Index") /\ ~ArrayLike(cursor)) =>
          /\ pc' = "done"
          /\ result' = PathErr("NotAnArray", Walked, "", path[i].index, 0, KindOf(cursor))
          /\ (ObjectLike(cursor) => result'.found = "Object")
          /\ result'.found \in TypeKinds \ {"Array"}]_vars

\* C5 witness: an index applied to an array-of-tables element (Table cursor)
C5_Witness ==
    /\ pc = "done" /\ backend = "toml"
    /\ result.tag = "NotAnArray"
    /\ cursor.c = "Table" /\ Len(cursor.node.keys) > 0
    /\ result.found = "Object"

\* C6: with an empty ValuePath both navigators return EmptyPath at once, for
\* every document: the loop is never entered, the document is never read
\* into the cursor and no node is returned.
C6_EmptyPathFailsFast ==
    path = <<>> =>
        /\ pc # "loop"
        /\ cursor = NoCursor
        /\ out = NoCursor
        /\ (pc # "call" => result = EmptyPath)

\* C6 witness: the TOML navigator returned EmptyPath on a non-empty table
C6_Witness ==
    /\ pc = "done" /\ backend = "toml"
    /\ path = <<>>
    /\ root.it = "Table" /\ Len(root.keys) > 0
    /\ result = EmptyPath

\* the exit code of each category, as documented
DocumentedExitCode ==
    [Usage |-> 2, FileIO |-> 3, Parse |-> 3, Path |-> 4, Type |-> 5, NotSupported |-> 6]

\* C7: the exit code is fixed by the category alone: Usage 2, FileIO 3,
\* Parse 3, Path 4, Type 5, NotSupported 6; it is never 0, the six categories
\* are the only ones, and the two-category draft agrees on its categories.
C7_ExitCodeByCategory ==
    pc = "exited" =>
        /\ cfgerr.cat \in {"Usage", "FileIO", "Parse", "Path", "Type", "NotSupported"}
        /\ code = DocumentedExitCode[cfgerr.cat]
        /\ code # 0
        /\ (cfgerr.cat \in {"Usage", "FileIO"} => exit_code_draft(cfgerr) = code)

\* C7 witness: a Parse error with a non-zero detail exited with code 3
C7_Witness ==
    /\ pc = "exited"
    /\ cfgerr.cat = "Parse" /\ cfgerr.variant = "ForeignParseError" /\ cfgerr.detail > 0
    /\ code = 3

\* C8: in the TOML backend an in-range Index on an array-of-tables item yields
\* a Table cursor, and a Key applied to a Table cursor yields an Item cursor
\* on the table's entry when the key exists and KeyNotFound when it does not.
C8_ArrayOfTablesElementIsTable ==
    [][/\ (/\ AtSegment("Index") /\ backend = "toml"
           /\ cursor.c = "Item" /\ cursor.node.it = "ArrayOfTables"
           /\ path[i].index < Len(cursor.node.kids))
          => cursor' = TomlCursor("Table", cursor.node.kids[path[i].index + 1])
       /\ (AtSegment("Key") /\ backend = "toml" /\ cursor.c = "Table")
          => IF HasKey(cursor.node, path[i].key)
             THEN cursor' = TomlCursor("Item", EntryOf(cursor.node, path[i].key))
             ELSE result'.tag = "KeyNotFound" /\ pc' = "done"]_vars

\* C8 witness: servers[0].a walked through an array of tables to an Item
C8_Witness ==
    /\ pc = "loop" /\ backend = "toml"
    /\ root.it = "Table"
    /\ prefix = <<Key("a"), Index(0), Key("a")>>
    /\ root.kids[1].it = "ArrayOfTables"
    /\ cursor.c = "Item"

\* the kind the shapes named by C9 must classify as, "-" for the others
SharedKind(cur) ==
    CASE ObjectLike(cur) -> "Object"
      [] ArrayLike(cur) -> "Array"
      [] cur.c = "Json" /\ cur.node.t = "String" -> "String"
      [] cur.c = "Json" /\ cur.node.t = "Bool" -> "Bool"
      [] cur.c \in {"Item", "Value"} /\ cur.node.it = "Value" /\ cur.node.vt = "String" -> "String"
      [] cur.c \in {"Item", "Value"} /\ cur.node.it = "Value" /\ cur.node.vt = "Boolean" -> "Bool"
      [] OTHER -> "-"

\* C9: on both backends objects, tables, inline tables and array-of-tables
\* elements classify as Object, arrays and arrays of tables as Array, strings
\* as String and booleans as Bool, in the kind of a resolved node and in the
\* found kind of an error.
C9_SharedClassification ==
    /\ (pc = "classified" /\ SharedKind(out) # "-") => kind = SharedKind(out)
    /\ (pc = "done" /\ result.tag \in {"NotAnObject", "NotAnArray"} /\ SharedKind(cursor) # "-")
          => result.found = SharedKind(cursor)

\* C9 witness: a non-empty array-of-tables element classified as Object
C9_Witness ==
    /\ pc = "classified" /\ backend = "toml"
    /\ out.c = "Table" /\ Len(out.node.keys) > 0
    /\ kind = "Object"

IsDatetime(cur) == cur.c \in {"Item", "Value"} /\ cur.node.it = "Value" /\ cur.node.vt = "Datetime"

\* the kind of a datetime by the parts it carries
DatetimeKind(node) ==
    CASE node.date /\ node.time -> "DateTime"
      [] node.date /\ ~node.time -> "Date"
      [] ~node.date /\ node.time -> "Time"

\* C10: a TOML datetime classifies as DateTime with a date and a time part,
\* as Date with a date part only and as Time with a time part only.
C10_DatetimeParts ==
    /\ (pc = "classified" /\ backend = "toml" /\ IsDatetime(out))
          => kind = DatetimeKind(out.node)
    /\ (pc = "done" /\ result.tag \in {"NotAnObject", "NotAnArray"} /\ IsDatetime(cursor))
          => result.found = DatetimeKind(cursor.node)

\* C10 witness: a date-only datetime inside an inline array classified as Date
C10_Witness ==
    /\ pc = "classified" /\ backend = "toml"
    /\ out.c = "Value" /\ IsDatetime(out)
    /\ out.node.date /\ ~out.node.time
    /\ kind = "Date"

\* =================================================== the path language
\* longest key-path string handed to the parser
MaxTextLen == 6

\* PathSeg::Key(String), the String as the sequence of its characters
TextKey(chars) == [seg |-> "Key", key |-> chars, index |-> 0]

\* PathSeg::Index(usize), in a path whose keys are character sequences
TextIndex(n) == [seg |-> "Index", key |-> <<>>, index |-> n]

DigitChars == <<"0", "1", "2", "3", "4", "5", "6", "7", "8", "9">>

\* Display of a usize: its decimal digits, no leading zero
RECURSIVE usize_fmt(_)
usize_fmt(n) ==
    IF n < 10 THEN <<DigitChars[n + 1]>>
    ELSE usize_fmt(n \div 10) \o <<DigitChars[(n % 10) + 1]>>

\* the loop of Display for ValuePath written as PathSeg's own Display writes
\* a key: with the dot at every position
SegmentText_DotAlways(seg, n) ==
    IF seg.seg = "Key"
    THEN <<".">> \o seg.key
    ELSE <<"[">> \o usize_fmt(seg.index) \o <<"]">>

\* the loop of Display for ValuePath joining every later segment, an index
\* too, with a dot
SegmentText_DotBeforeIndex(seg, n) ==
    IF seg.seg = "Key"
    THEN IF n = 1 THEN seg.key ELSE <<".">> \o seg.key
    ELSE IF n = 1 THEN <<"[">> \o usize_fmt(seg.index) \o <<"]">>
         ELSE <<".", "[">> \o usize_fmt(seg.index) \o <<"]">>

\* SegmentText that never writes the dot before a key
SegmentText_NoDot(seg, n) ==
    IF seg.seg = "Key"
    THEN seg.key
    ELSE <<"[">> \o usize_fmt(seg.index) \o <<"]">>

\* what the loop of Display for ValuePath writes for segment number n
\* (1-based here, i = n - 1 in the source)
SegmentText(seg, n) ==
    IF seg.seg = "Key"
    THEN IF n = 1 THEN seg.key ELSE <<".">> \o seg.key
    ELSE <<"[">> \o usize_fmt(seg.index) \o <<"]">>

RECURSIVE ValuePath_fmt_from(_, _, _)
ValuePath_fmt_from(p, n, f) ==
    IF n > Len(p) THEN f
    ELSE ValuePath_fmt_from(p, n + 1, f \o SegmentText(p[n], n))

\* impl Display for ValuePath
ValuePath_fmt(p) == ValuePath_fmt_from(p, 1, <<>>)

\* ---- the parser of key-path strings (grammar of the path language):
\*      path := segment ( '.' segment | index )*, segment := identifier,
\*      index := '[' digits ']'
Letters == {"a", "b", "e", "h", "k", "n", "o", "r", "s", "t", "v", "w", "i", "m", "u", "_"}

IsDigit(c) == \E d \in 1..10 : DigitChars[d] = c

IsIdentStart(c) == c \in Letters

IsIdentChar(c) == c \in Letters \/ IsDigit(c)

\* first position at or after n whose character is not an identifier character
RECURSIVE IdentEnd(_, _)
IdentEnd(s, n) ==
    IF n <= Len(s) /\ IsIdentChar(s[n]) THEN IdentEnd(s, n + 1) ELSE n

\* first position at or after n whose character is not a digit
RECURSIVE DigitsEnd(_, _)
DigitsEnd(s, n) ==
    IF n <= Len(s) /\ IsDigit(s[n]) THEN DigitsEnd(s, n + 1) ELSE n

\* the number written by a digit string
RECURSIVE DigitsValue(_)
DigitsValue(ds) ==
    IF Len(ds) = 0 THEN 0
    ELSE 10 * DigitsValue(SubSeq(ds, 1, Len(ds) - 1))
         + ((CHOOSE d \in 1..10 : DigitChars[d] = ds[Len(ds)]) - 1)

Parsed(p) == [ok |-> TRUE, path |-> p]

\* UsageError::InvalidPathSyntax
InvalidPathSyntax == [ok |-> FALSE, path |-> <<>>]

\* ( '.' segment | index )* from position n on
RECURSIVE parse_path_rest(_, _, _)
parse_path_rest(s, n, acc) ==
    IF n > Len(s) THEN Parsed(acc)
    ELSE IF s[n] = "."
    THEN LET e == IdentEnd(s, n + 1) IN
         IF e = n + 1 \/ ~IsIdentStart(s[n + 1])
         THEN InvalidPathSyntax
         ELSE parse_path_rest(s, e, Append(acc, TextKey(SubSeq(s, n + 1, e - 1))))
    ELSE IF s[n] = "["
    THEN LET e == DigitsEnd(s, n + 1) IN
         IF e = n + 1 \/ e > Len(s) \/ s[e] # "]"
         THEN InvalidPathSyntax
         ELSE parse_path_rest(s, e + 1,
                              Append(acc, TextIndex(DigitsValue(SubSeq(s, n + 1, e - 1)))))
    ELSE InvalidPathSyntax

\* parse of a key-path string into a ValuePath
parse_path(s) ==
    LET e == IdentEnd(s, 1) IN
    IF e = 1 \/ ~IsIdentStart(s[1])
    THEN InvalidPathSyntax
    ELSE parse_path_rest(s, e, <<TextKey(SubSeq(s, 1, e - 1))>>)

\* ---- inputs
PathAlphabet == {"a", "b", ".", "[", "]", "0", "1"}

\* the texts of n characters over an alphabet
TextsOfLen(alphabet, n) == [1..n -> alphabet]

\* every key-path string of at most MaxTextLen characters, valid or not
PathStrings == UNION {TextsOfLen(PathAlphabet, n) : n \in 0..MaxTextLen}

\* [Key network, Key timeout]
NetworkTimeout ==
    <<TextKey(<<"n", "e", "t", "w", "o", "r", "k">>),
      TextKey(<<"t", "i", "m", "e", "o", "u", "t">>)>>

\* [Key servers, Index 0, Key host]
ServersHost ==
    <<TextKey(<<"s", "e", "r", "v", "e", "r", "s">>), TextIndex(0),
      TextKey(<<"h", "o", "s", "t">>)>>

TextSegs ==
    {TextKey(<<"a">>), TextKey(<<"b">>), TextKey(<<"a", "b">>),
     TextIndex(0), TextIndex(7), TextIndex(10)}

RECURSIVE TextPathsOfLen(_)
TextPathsOfLen(n) ==
    IF n = 0 THEN {<<>>}
    ELSE {Append(p, g) : p \in TextPathsOfLen(n - 1), g \in TextSegs}

\* the ValuePaths rendered directly
TextPaths ==
    UNION {TextPathsOfLen(n) : n \in 0..MaxPathLen} \cup {NetworkTimeout, ServersHost}

\* the navigator state, unused while the path language runs
NavIdle ==
    /\ backend = "json" /\ root = JNull
    /\ i = 0 /\ cursor = NoCursor /\ prefix = <<>>
    /\ result = NoResult /\ out = NoCursor /\ kind = "-"

\* either a key-path string about to be parsed, or a ValuePath about to be
\* rendered
InitRender ==
    /\ \/ pc = "text" /\ src \in PathStrings /\ path = <<>>
       \/ pc = "value" /\ src = NoText /\ path \in TextPaths
    /\ text = NoText
    /\ cfgerr = NoError /\ code = -1
    /\ NavIdle
    /\ loc = NoLoc /\ disk = NoDisk /\ cmd = NoCmd /\ io = NoIo

\* the key-path string is parsed; a malformed one is a usage error
ParsePath ==
    /\ pc = "text"
    /\ LET r == parse_path(src) IN
       IF r.ok
       THEN path' = r.path /\ pc' = "parsed" /\ UNCHANGED cfgerr
       ELSE cfgerr' = ConfigError("Usage", "InvalidPathSyntax", 0) /\ pc' = "raised"
            /\ UNCHANGED path
    /\ UNCHANGED <<backend, root, i, cursor, prefix, result, out, kind, code,
                   src, text, loc, disk, cmd, io>>

\* the ValuePath is rendered with its Display
RenderPath ==
    /\ pc \in {"parsed", "value"}
    /\ text' = ValuePath_fmt(path)
    /\ pc' = "rendered"
    /\ UNCHANGED <<backend, root, path, i, cursor, prefix, result, out, kind, cfgerr, code,
                   src, loc, disk, cmd, io>>

NextRender == ParsePath \/ RenderPath

SpecRender == InitRender /\ [][NextRender]_vars

\* what rendering must write for a path, built from its last segment back
RECURSIVE CanonicalText(_)
CanonicalText(p) ==
    IF Len(p) = 0 THEN <<>>
    ELSE LET last == p[Len(p)]
             front == SubSeq(p, 1, Len(p) - 1)
         IN CASE last.seg = "Index" ->
                     CanonicalText(front) \o <<"[">> \o usize_fmt(last.index) \o <<"]">>
              [] last.seg = "Key" /\ Len(p) = 1 -> last.key
              [] last.seg = "Key" /\ Len(p) > 1 -> CanonicalText(front) \o <<".">> \o last.key

\* C11: rendering writes a Key at position 0 without a dot, every later Key
\* as '.' and the key, every Index as '[' digits ']' without a dot; the two
\* worked examples render 'network.timeout' and 'servers[0].host'; the empty
\* path renders as the empty string.
C11_RenderedText ==
    pc = "rendered" =>
        /\ text = CanonicalText(path)
        /\ (path = <<>> => text = <<>>)
        /\ (path = NetworkTimeout =>
               text = <<"n", "e", "t", "w", "o", "r", "k", ".", "t", "i", "m", "e", "o", "u", "t">>)
        /\ (path = ServersHost =>
               text = <<"s", "e", "r", "v", "e", "r", "s", "[", "0", "]", ".", "h", "o", "s", "t">>)

\* C11 witness: servers[0].host rendered
C11_Witness ==
    /\ pc = "rendered"
    /\ path = ServersHost
    /\ text = <<"s", "e", "r", "v", "e", "r", "s", "[", "0", "]", ".", "h", "o", "s", "t">>

\* C12: for a valid key-path string, the rendered text of its parse parses
\* back to the same ValuePath and renders to the same text again.
C12_RoundTripFixedPoint ==
    (pc = "rendered" /\ src # NoText) =>
        LET again == parse_path(text) IN
        /\ again.ok
        /\ again.path = path
        /\ ValuePath_fmt(again.path) = text

\* C12 witness: a[01] parsed and rendered in canonical form as a[1]
C12_Witness ==
    /\ pc = "rendered"
    /\ src = <<"a", "[", "0", "1", "]">>
    /\ text = <<"a", "[", "1", "]">>

\* C30: two different ValuePaths whose keys are identifiers never render to
\* the same text.
C30_RenderingInjective ==
    (pc = "rendered" /\ src = NoText) =>
        \A q \in TextPaths : q # path => ValuePath_fmt(q) # text

\* [Key a, Key b] renders a.b, which [Key ab] and no other path does
C30_Witness ==
    /\ pc = "rendered" /\ src = NoText
    /\ path = <<TextKey(<<"a">>), TextKey(<<"b">>)>>
    /\ text = <<"a", ".", "b">>

\* ================================================ parse-error locations
\* longest source text of a document
MaxSrcLen == 4
\* largest line and column a JSON parse error reports
MaxLineCol == 3

\* characters of a source text: a letter, a blank, a newline and a letter
\* of two bytes in UTF-8 (sources with \n line ends)
SrcAlphabet == {"a", " ", "\n", "é"}

SourceTexts == UNION {TextsOfLen(SrcAlphabet, n) : n \in 0..MaxSrcLen}

\* char::len_utf8
len_utf8(ch) == IF ch = "é" THEN 2 ELSE 1

\* byte offset at which character number k (1-based) of src starts
RECURSIVE ByteStart(_, _)
ByteStart(s, k) == IF k <= 1 THEN 0 ELSE ByteStart(s, k - 1) + len_utf8(s[k - 1])

\* str::len, in bytes
ByteLen(s) == ByteStart(s, Len(s) + 1)

\* the loop of offset_to_line_col from character number k on;
\* src.char_indices() yields (ByteStart(src, k), src[k])
RECURSIVE offset_to_line_col_from(_, _, _, _, _)
offset_to_line_col_from(s, offset, k, line, col) ==
    IF k > Len(s) \/ ByteStart(s, k) >= offset
    THEN [line |-> line, column |-> col]
    ELSE IF s[k] = "\n"
         THEN offset_to_line_col_from(s, offset, k + 1, line + 1, 1)
         ELSE offset_to_line_col_from(s, offset, k + 1, line, col + 1)

\* offset_to_line_col that counts the character at the offset too
offset_to_line_col_Inclusive(s, offset) ==
    offset_to_line_col_from(s, offset + 1, 1, 1, 1)

\* offset_to_line_col
offset_to_line_col(s, offset) == offset_to_line_col_from(s, offset, 1, 1, 1)

\* str::lines: the pieces between newlines; an empty piece after the last
\* newline is not a line, and the empty text has no line
RECURSIVE str_lines_from(_, _, _, _)
str_lines_from(s, k, cur, acc) ==
    IF k > Len(s)
    THEN IF Len(cur) = 0 THEN acc ELSE Append(acc, cur)
    ELSE IF s[k] = "\n"
         THEN str_lines_from(s, k + 1, <<>>, Append(acc, cur))
         ELSE str_lines_from(s, k + 1, Append(cur, s[k]), acc)

str_lines(s) == str_lines_from(s, 1, <<>>, <<>>)

\* usize::saturating_sub
saturating_sub(a, b) == IF a >= b THEN a - b ELSE 0

\* " ".repeat(n)
Spaces(n) == [k \in 1..n |-> " "]

\* extract_snippet
extract_snippet(s, line, column) ==
    LET lines == str_lines(s)
        nth == saturating_sub(line, 1)
    IN IF nth + 1 <= Len(lines)
       THEN lines[nth + 1] \o <<"\n">>
            \o (IF column > 1 THEN Spaces(saturating_sub(column, 1)) ELSE <<>>)
            \o <<"^">>
       ELSE <<>>

\* a document that failed to parse: a TOML error with or without a span, or
\* a JSON error with its line and column
InitLocate ==
    /\ src \in SourceTexts
    /\ \/ /\ backend = "toml"
          /\ \E o \in 0..(MaxSrcLen * 2 + 1) :
                /\ o <= ByteLen(src) + 1
                /\ loc = [span |-> TRUE, offset |-> o, line |-> 0, column |-> 0]
       \/ /\ backend = "toml"
          /\ loc = NoLoc
       \/ /\ backend = "json"
          /\ \E l \in 1..MaxLineCol, c \in 0..MaxLineCol :
                loc = [span |-> FALSE, offset |-> 0, line |-> l, column |-> c]
    /\ pc = "failed"
    /\ text = NoText
    /\ path = <<>>
    /\ root = JNull /\ i = 0 /\ cursor = NoCursor /\ prefix = <<>>
    /\ result = NoResult /\ out = NoCursor /\ kind = "-"
    /\ cfgerr = NoError /\ code = -1
    /\ disk = NoDisk /\ cmd = NoCmd /\ io = NoIo

\* impl From<(ConfigFormat, &str, toml_edit::TomlError)> for ParseError
TomlParseErrorFrom ==
    /\ pc = "failed" /\ backend = "toml"
    /\ LET lc == IF loc.span
                 THEN offset_to_line_col(src, loc.offset)
                 ELSE [line |-> 1, column |-> 1]
       IN /\ loc' = [loc EXCEPT !.line = lc.line, !.column = lc.column]
          /\ text' = extract_snippet(src, lc.line, lc.column)
    /\ cfgerr' = ConfigError("Parse", "ForeignParseError", 0)
    /\ pc' = "raised"
    /\ UNCHANGED <<backend, root, path, i, cursor, prefix, result, out, kind, code,
                   src, disk, cmd, io>>

\* impl From<(ConfigFormat, &str, serde_json::Error)> for ParseError
JsonParseErrorFrom ==
    /\ pc = "failed" /\ backend = "json"
    /\ text' = extract_snippet(src, loc.line, loc.column)
    /\ cfgerr' = ConfigError("Parse", "ForeignParseError", 0)
    /\ pc' = "raised"
    /\ UNCHANGED <<backend, root, path, i, cursor, prefix, result, out, kind, code,
                   src, loc, disk, cmd, io>>

NextLocate == TomlParseErrorFrom \/ JsonParseErrorFrom

SpecLocate == InitLocate /\ [][NextLocate]_vars

\* positions (1-based) of the newline characters of s
NewlinesOf(s) == {k \in 1..Len(s) : s[k] = "\n"}

\* the text of source line number l: what lies between newline l-1 (or the
\* start) and newline l (or the end)
SourceLine(s, l) ==
    LET nl == NewlinesOf(s)
        from == IF l = 1 THEN 1
                ELSE 1 + (CHOOSE k \in nl : Cardinality({j \in nl : j < k}) = l - 2)
        to == IF Cardinality(nl) >= l
              THEN (CHOOSE k \in nl : Cardinality({j \in nl : j < k}) = l - 1) - 1
              ELSE Len(s)
    IN SubSeq(s, from, to)

\* C18: the snippet of a parse error at the 1-based (line, column) of a line
\* of the source is that line, a newline, column-1 spaces and one '^'.
C18_SnippetIsLineAndCaret ==
    (/\ pc = "raised" /\ cfgerr.cat = "Parse"
     /\ loc.line >= 1 /\ loc.column >= 1
     /\ loc.line <= Cardinality(NewlinesOf(src)) + 1)
    => text = SourceLine(src, loc.line) \o <<"\n">> \o Spaces(loc.column - 1) \o <<"^">>

\* chars of s that start before byte offset o
StartBefore(s, o) == {k \in 1..Len(s) : ByteStart(s, k) < o}

\* C19: offset_to_line_col returns line = 1 + the number of newlines that
\* start before the offset and column = 1 + the number of characters between
\* the last such newline (or the start) and the offset; offset 0 gives (1, 1)
\* and an offset at or past the end gives the position after the last
\* character.
C19_LineColFromOffset ==
    (pc = "raised" /\ backend = "toml" /\ loc.span) =>
        LET before == StartBefore(src, loc.offset)
            nls == {k \in before : src[k] = "\n"}
            lastnl == IF nls = {} THEN 0 ELSE CHOOSE k \in nls : \A j \in nls : j <= k
        IN /\ loc.line = 1 + Cardinality(nls)
           /\ loc.column = 1 + Cardinality({k \in before : k > lastnl})
           /\ (loc.offset = 0 => loc.line = 1 /\ loc.column = 1)
           /\ (loc.offset >= ByteLen(src) =>
                  /\ loc.line = 1 + Cardinality(NewlinesOf(src))
                  /\ loc.column = 1 + Len(src) - lastnl)

\* C19 witness: an offset inside the second line, after a two-byte character
C19_Witness ==
    /\ pc = "raised" /\ backend = "toml" /\ loc.span
    /\ src = <<"a", "\n", "é", "a">>
    /\ loc.offset = 4
    /\ loc.line = 2 /\ loc.column = 2

\* ============================================================ persistence
\* The read - parse - mutate - serialize - write temp - rename sequence of
\* a mutating command, with the FileIoError each failing file operation is
\* wrapped into.
MaxFileLen == 2

FileAlphabet == {"x", "y"}

\* the contents a file can have, as byte sequences
FileTexts == UNION {TextsOfLen(FileAlphabet, n) : n \in 0..MaxFileLen}

\* the --file argument
FilePaths == {"cfg.json", "conf/app.toml"}

\* the temporary file is created adjacent to the target
TempPath(p) == p \o ".tmp"

\* the navigator's variables, idle during persistence
navvars == <<backend, root, path, i, cursor, prefix, result, out, kind>>

InitPersist ==
    /\ \E p \in FilePaths, f \in FileTexts :
          disk = [path |-> p, file |-> f, temp |-> <<>>, has_temp |-> FALSE]
    /\ \E op \in {"set", "delete"} : cmd = [NoCmd EXCEPT !.op = op]
    /\ pc = "load"
    /\ src = NoText /\ text = NoText
    /\ path = <<>> /\ NavIdle
    /\ cfgerr = NoError /\ code = -1
    /\ loc = NoLoc /\ io = NoIo

\* a file operation failed with fault k: the error is raised and the
\* temporary file, if any, is released
IoFailure(err, k) ==
    /\ io' = [kind |-> k, err |-> err]
    /\ cfgerr' = ConfigError("FileIO", err.variant, 0)
    /\ disk' = [disk EXCEPT !.temp = <<>>, !.has_temp = FALSE]
    /\ cmd' = [cmd EXCEPT !.status = "failed"]
    /\ pc' = "raised"

\* a step after the read failed with a Parse, Path or Type error
StepFailure(cat, variant) ==
    /\ cfgerr' = ConfigError(cat, variant, 0)
    /\ cmd' = [cmd EXCEPT !.status = "failed"]
    /\ pc' = "raised"

\* read raw source text
ReadFile ==
    /\ pc = "load"
    /\ \/ /\ src' = disk.file /\ pc' = "parse"
          /\ UNCHANGED <<disk, cmd, io, cfgerr>>
       \/ /\ \E k \in IoKinds : IoFailure(read_failed(disk.path, k), k)
          /\ UNCHANGED src
    /\ UNCHANGED <<navvars, code, text, loc>>

\* parse into the format's document model
ParseDocument ==
    /\ pc = "parse"
    /\ \/ pc' = "mutate" /\ UNCHANGED <<cfgerr, cmd>>
       \/ StepFailure("Parse", "ForeignParseError")
    /\ UNCHANGED <<navvars, code, src, text, loc, disk, io>>

\* run one Navigator mutation
Mutate ==
    /\ pc = "mutate"
    /\ \/ pc' = "serialize" /\ UNCHANGED <<cfgerr, cmd>>
       \/ StepFailure("Path", "KeyNotFound")
       \/ cmd.op = "set" /\ StepFailure("Type", "TypeMismatch")
    /\ UNCHANGED <<navvars, code, src, text, loc, disk, io>>

\* serialize the mutated document back to text
Serialize ==
    /\ pc = "serialize"
    /\ text' \in FileTexts
    /\ pc' = "create"
    /\ UNCHANGED <<navvars, code, src, loc, disk, cmd, io, cfgerr>>

\* create the temporary file next to the target
CreateTemp ==
    /\ pc = "create"
    /\ \/ /\ disk' = [disk EXCEPT !.temp = <<>>, !.has_temp = TRUE]
          /\ pc' = "write"
          /\ UNCHANGED <<cmd, io, cfgerr>>
       \/ \E k \in IoKinds : IoFailure(temp_create_failed(disk.path, k), k)
    /\ UNCHANGED <<navvars, code, src, text, loc>>

\* WriteTemp that writes into the config file itself
WriteTemp_InPlace ==
    /\ pc = "write"
    /\ Len(disk.temp) < Len(text)
    /\ \/ /\ disk' = [disk EXCEPT !.temp = Append(@, text[Len(@) + 1]),
                                  !.file = SubSeq(text, 1, Len(disk.temp) + 1)]
          /\ UNCHANGED <<pc, cmd, io, cfgerr>>
       \/ \E k \in IoKinds : IoFailure(write_failed(TempPath(disk.path), k), k)
    /\ UNCHANGED <<navvars, code, src, text, loc>>

\* write the serialized text to the temporary file, a piece at a time
WriteTemp ==
    /\ pc = "write"
    /\ Len(disk.temp) < Len(text)
    /\ \/ /\ disk' = [disk EXCEPT !.temp = Append(@, text[Len(@) + 1])]
          /\ UNCHANGED <<pc, cmd, io, cfgerr>>
       \/ \E k \in IoKinds : IoFailure(write_failed(TempPath(disk.path), k), k)
    /\ UNCHANGED <<navvars, code, src, text, loc>>

\* atomically rename the temporary file over the original
Rename ==
    /\ pc = "write"
    /\ disk.temp = text
    /\ \/ /\ disk' = [disk EXCEPT !.file = disk.temp, !.temp = <<>>, !.has_temp = FALSE]
          /\ cmd' = [cmd EXCEPT !.status = "ok"]
          /\ pc' = "done"
          /\ UNCHANGED <<io, cfgerr>>
       \/ \E k \in IoKinds :
             IoFailure(atomic_replace_failed(TempPath(disk.path), disk.path, k), k)
    /\ UNCHANGED <<navvars, code, src, text, loc>>

\* the process is interrupted between two steps
Interrupt ==
    /\ pc \in {"load", "parse", "mutate", "serialize", "create", "write"}
    /\ pc' = "killed"
    /\ UNCHANGED <<navvars, code, src, text, loc, disk, cmd, io, cfgerr>>

NextPersist ==
    \/ ReadFile \/ ParseDocument \/ Mutate \/ Serialize
    \/ CreateTemp \/ WriteTemp \/ Rename \/ Interrupt

SpecPersist == InitPersist /\ [][NextPersist]_vars

\* C13: the config file is replaced only by the rename step, and then by
\* the whole serialized text: no step before the rename, no failure and no
\* interruption changes a byte of it, so it holds the old content until the
\* rename and the new content after it.
C13_ReplacedOnlyByRename ==
    [][/\ disk'.file # disk.file => pc = "write" /\ pc' = "done"
       /\ pc' = "done" => disk'.file = text
       /\ (pc' \notin {"load", "done"} /\ pc # "load") => disk'.file = src]_vars

\* interrupted with the new text half written to the temporary file: the
\* config file still holds the old content
C13_Witness ==
    /\ pc = "killed"
    /\ disk.has_temp /\ disk.temp # <<>> /\ disk.temp # text
    /\ src # text
    /\ disk.file = src

\* C20: the reason of a FileIoError is that of its fault kind alone: the
\* same for every path and operation name, different from the reason of
\* every other named kind, and the kind's own Display with the general hint
\* for a kind that is not one of the six named ones.
C20_ReasonByKind ==
    io.kind # "-" =>
        /\ \A p \in FilePaths \cup {TempPath(q) : q \in FilePaths},
              op \in {"read", "write", "temp file create", "atomic replace"} :
                 io_reason_and_hint(io.kind, p, op).reason = io.err.reason
        /\ \A k \in NamedIoKinds \ {io.kind} :
                 io_reason_and_hint(k, io.err.path, "read").reason # io.err.reason
        /\ io.kind \notin NamedIoKinds =>
              /\ io.err.reason = ErrorKind_to_string(io.kind)
              /\ io.err.hint = "Re-run with --debug for more details."

\* a missing file met by the read: the hint names the path, the reason not
C20_Witness ==
    /\ pc = "raised" /\ io.kind = "NotFound"
    /\ io.err.variant = "ReadFailed"
    /\ io.err.path = "cfg.json"
    /\ io.err.reason = "No such file or directory"
    /\ io.err.hint = "Check the path or create it first: cfg.json"

\* ================================================================ commands
\* set, delete and list, run on a loaded document through the navigators.
MaxEditLen == 2

\* the KEY_PATH arguments of the commands, parsed
EditPaths == UNION {PathsOfLen(n) : n \in 0..MaxEditLen}

\* the VALUE argument of a set, parsed
JsonValues == {JStr, JInt, JObj(<<>>, <<>>)}

TomlValues == {TStr, TInt, TInl(<<>>, <<>>)}

\* the navigator of backend b
resolve(b, doc, p) ==
    IF b = "json" THEN get_json_at_path(doc, p) ELSE get_toml_at_path(doc, p)

\* the TypeKind of a resolved node
type_kind_at(b, at) ==
    IF b = "json" THEN from_json(at.node) ELSE TomlAt_type_kind(at)

\* the TypeKind inferred for a new value
infer_kind(b, v) ==
    IF b = "json" THEN from_json(v) ELSE from_toml_value(v)

\* the root as a resolved node
RootAt(b, doc) ==
    Returned(OkResult, IF b = "json" THEN JsonCursor(doc) ELSE TomlCursor("Item", doc))

\* s without its p-th element
Drop(s, p) == SubSeq(s, 1, p - 1) \o SubSeq(s, p + 1, Len(s))

\* position among node's children of the entry seg names, 0 for a missing key
ChildPos(node, seg) ==
    IF seg.seg = "Key" THEN KeyPos(node.keys, seg.key) ELSE seg.index + 1

\* node without the entry seg names: the later entries move up
RemoveEntry(node, seg) ==
    LET c == ChildPos(node, seg) IN
    IF c \notin 1..Len(node.kids) THEN node
    ELSE IF seg.seg = "Key"
         THEN [node EXCEPT !.keys = Drop(@, c), !.kids = Drop(@, c)]
         ELSE [node EXCEPT !.kids = Drop(@, c)]

\* the document with the entry at p[n..] removed
RECURSIVE RemoveAt(_, _, _)
RemoveAt(node, p, n) ==
    IF n >= Len(p)
    THEN RemoveEntry(node, p[n])
    ELSE LET c == ChildPos(node, p[n]) IN
         IF c \notin 1..Len(node.kids) THEN node
         ELSE [node EXCEPT !.kids[c] = RemoveAt(@, p, n + 1)]

\* the document with the node at p[n..] replaced by v, the rest untouched
RECURSIVE ReplaceAt(_, _, _, _)
ReplaceAt(node, p, n, v) ==
    IF n > Len(p)
    THEN v
    ELSE LET c == ChildPos(node, p[n]) IN
         IF c \notin 1..Len(node.kids) THEN node
         ELSE [node EXCEPT !.kids[c] = ReplaceAt(@, p, n + 1, v)]

\* what a command returns: the category of the result ("Ok" or that of the
\* error), the error, the document after it and, for list, the children
CmdResult(status, perr, terr, doc, listed) ==
    [status |-> status, perr |-> perr, terr |-> terr, doc |-> doc, listed |-> listed]

\* delete P: a path that does not resolve is the navigator's Path error
Delete(b, doc, p) ==
    LET r == resolve(b, doc, p) IN
    IF r.result.tag # "Ok"
    THEN CmdResult("Path", r.result, NoTypeError, doc, <<>>)
    ELSE CmdResult("Ok", OkResult, NoTypeError, RemoveAt(doc, p, 1), <<>>)

\* set P V: strict unless coercion is requested, which is not supported
Set(b, doc, p, v, coerce) ==
    IF coerce
    THEN CmdResult("NotSupported", NoResult, NoTypeError, doc, <<>>)
    ELSE LET r == resolve(b, doc, p) IN
         IF r.result.tag # "Ok"
         THEN CmdResult("Path", r.result, NoTypeError, doc, <<>>)
         ELSE LET expected == type_kind_at(b, r.out)
                  found == infer_kind(b, v)
              IN IF expected # found
                 THEN CmdResult("Type", NoResult, TypeError_mismatch(p, expected, found),
                                doc, <<>>)
                 ELSE CmdResult("Ok", OkResult, NoTypeError, ReplaceAt(doc, p, 1, v), <<>>)

\* list P; without a KEY_PATH the root is listed
List(b, doc, p) ==
    LET r == IF p = <<>> THEN RootAt(b, doc) ELSE resolve(b, doc, p) IN
    IF r.result.tag # "Ok"
    THEN CmdResult("Path", r.result, NoTypeError, doc, <<>>)
    ELSE LET k == type_kind_at(b, r.out)
             node == r.out.node
         IN CASE k = "Object" ->
                    CmdResult("Ok", OkResult, NoTypeError, doc,
                              [j \in 1..Len(node.keys) |-> Key(node.keys[j])])
              [] k = "Array" ->
                    CmdResult("Ok", OkResult, NoTypeError, doc,
                              [j \in 1..Len(node.kids) |-> Index(j - 1)])
              [] OTHER ->
                    CmdResult("Path", NotAContainer(p, k), NoTypeError, doc, <<>>)

\* the ConfigError a command's result is reported as
ErrorOf(r) ==
    CASE r.status = "Ok" -> NoError
      [] r.status = "Path" -> ConfigError("Path", r.perr.tag, 0)
      [] r.status = "Type" -> ConfigError("Type", r.terr.tag, 0)
      [] r.status = "NotSupported" -> ConfigError("NotSupported", "Option", 0)

\* a command about to run on a loaded document
InitEdit ==
    /\ \/ backend = "json" /\ root \in JsonDocs
       \/ backend = "toml" /\ root \in TomlDocs
    /\ path \in EditPaths
    /\ \/ cmd = [NoCmd EXCEPT !.op = "delete", !.doc0 = root]
       \/ cmd = [NoCmd EXCEPT !.op = "list", !.doc0 = root]
       \/ \E v \in (IF backend = "json" THEN JsonValues ELSE TomlValues), c \in BOOLEAN :
             cmd = [NoCmd EXCEPT !.op = "set", !.value = v, !.coerce = c, !.doc0 = root]
    /\ pc = "cmd"
    /\ i = 0 /\ cursor = NoCursor /\ prefix = <<>>
    /\ result = NoResult /\ out = NoCursor /\ kind = "-"
    /\ cfgerr = NoError /\ code = -1
    /\ src = NoText /\ text = NoText /\ loc = NoLoc /\ disk = NoDisk /\ io = NoIo

\* the command returned r
Returns(r, next) ==
    /\ root' = r.doc
    /\ result' = r.perr
    /\ cfgerr' = ErrorOf(r)
    /\ cmd' = [cmd EXCEPT !.status = r.status, !.first = cmd.status,
                          !.terr = r.terr, !.listed = r.listed]
    /\ pc' = next
    /\ UNCHANGED <<backend, path, i, cursor, prefix, out, kind, code,
                   src, text, loc, disk, io>>

\* delete P, and delete P once more after a delete that succeeded
DeleteCmd ==
    /\ cmd.op = "delete"
    /\ \/ pc = "cmd" /\ Returns(Delete(backend, root, path), "once")
       \/ pc = "once" /\ cmd.status = "Ok" /\ Returns(Delete(backend, root, path), "twice")

SetCmd ==
    /\ cmd.op = "set" /\ pc = "cmd"
    /\ Returns(Set(backend, root, path, cmd.value, cmd.coerce), "set")

ListCmd ==
    /\ cmd.op = "list" /\ pc = "cmd"
    /\ Returns(List(backend, root, path), "listed")

NextEdit == DeleteCmd \/ SetCmd \/ ListCmd

SpecEdit == InitEdit /\ [][NextEdit]_vars

\* the node is a JSON object, a TOML table or an inline table
IsObjectNode(node) ==
    IF backend = "json"
    THEN node.t = "Object"
    ELSE node.it = "Table" \/ (node.it = "Value" /\ node.vt = "InlineTable")

\* the node is a JSON array, a TOML array or an array of tables
IsArrayNode(node) ==
    IF backend = "json"
    THEN node.t = "Array"
    ELSE node.it = "ArrayOfTables" \/ (node.it = "Value" /\ node.vt = "Array")

\* the node p[n..] leads to from node, by the structure of the document
\* alone: a key names the entry of an object, an index the element of an array
RECURSIVE StructWalk(_, _, _)
StructWalk(node, p, n) ==
    IF n > Len(p)
    THEN [ok |-> TRUE, node |-> node]
    ELSE LET seg == p[n] IN
         IF seg.seg = "Key"
         THEN IF IsObjectNode(node) /\ HasKey(node, seg.key)
              THEN StructWalk(EntryOf(node, seg.key), p, n + 1)
              ELSE [ok |-> FALSE, node |-> node]
         ELSE IF IsArrayNode(node) /\ seg.index < Len(node.kids)
              THEN StructWalk(node.kids[seg.index + 1], p, n + 1)
              ELSE [ok |-> FALSE, node |-> node]

StructAt(doc, p) == StructWalk(doc, p, 1)

\* the TypeKind of a node of the document
KindOfNode(node) ==
    IF backend = "json" THEN from_json(node) ELSE from_toml_item(node)

\* the path to the parent, and the final segment
ParentPath(p) == SubSeq(p, 1, Len(p) - 1)

FinalSeg(p) == p[Len(p)]

\* a delete of a P that resolved has run, once or twice
DeletedResolvable ==
    /\ cmd.op = "delete" /\ pc \in {"once", "twice"}
    /\ path # <<>> /\ StructAt(cmd.doc0, path).ok

SameButAt(doc, doc0, p) ==
    \A n \in 0..(Len(p) - 1) :
        LET a == StructAt(doc0, SubSeq(p, 1, n)).node
            b == StructAt(doc, SubSeq(p, 1, n)).node
            c == ChildPos(a, p[n + 1])
        IN /\ [b EXCEPT !.kids = <<>>] = [a EXCEPT !.kids = <<>>]
           /\ Len(b.kids) = Len(a.kids)
           /\ \A j \in 1..Len(a.kids) : j # c => b.kids[j] = a.kids[j]

\* C15: without coercion, set P V on a resolvable P is a Type error that
\* leaves the document as it was when the kind of V differs from the kind
\* of the node at P, and otherwise succeeds with V in place of the node at
\* P and everything else as it was.
C15_SetChecksKind ==
    (/\ cmd.op = "set" /\ pc = "set" /\ ~cmd.coerce
     /\ path # <<>> /\ StructAt(cmd.doc0, path).ok)
    => IF KindOfNode(StructAt(cmd.doc0, path).node) # KindOfNode(cmd.value)
       THEN /\ cmd.status = "Type" /\ cfgerr.cat = "Type"
            /\ root = cmd.doc0
       ELSE /\ cmd.status = "Ok" /\ cfgerr = NoError
            /\ StructAt(root, path).ok
            /\ StructAt(root, path).node = cmd.value
            /\ SameButAt(root, cmd.doc0, path)

\* a = 1 (TOML) set to a string: a Type error, nothing changed
C15_Witness ==
    /\ pc = "set" /\ backend = "toml"
    /\ cmd.doc0 = TTable(<<"a">>, <<TInt>>)
    /\ path = <<Key("a")>>
    /\ cmd.value = TStr /\ ~cmd.coerce
    /\ cmd.status = "Type"
    /\ cmd.terr = TypeError_mismatch(path, "Int", "String")
    /\ root = cmd.doc0

\* C16: list on a path returns every segment that, appended to it, gives a
\* path of length at least 2 that resolves in the document.
C16_ListHasFinalSegment ==
    (cmd.op = "list" /\ pc = "listed" /\ Len(path) >= 1) =>
        \A s \in Segs :
            StructAt(root, Append(path, s)).ok =>
                /\ cmd.status = "Ok"
                /\ \E j \in 1..Len(cmd.listed) : cmd.listed[j] = s

\* {"a": ["x", "y"]}: list a returns [0] and [1]
C16_Witness ==
    /\ pc = "listed" /\ backend = "json"
    /\ root = JObj(<<"a">>, <<JArr(<<JStr, JStr>>)>>)
    /\ path = <<Key("a")>>
    /\ cmd.status = "Ok"
    /\ cmd.listed = <<Index(0), Index(1)>>

\* C17: list on a path that resolves to a scalar fails with NotAContainer,
\* whose prefix is the whole path and whose found is the node's TypeKind;
\* on an object it returns the keys in order and on an array the indices
\* in order.
C17_ListScalarOrChildren ==
    (cmd.op = "list" /\ pc = "listed" /\ StructAt(root, path).ok) =>
        LET node == StructAt(root, path).node IN
        /\ (~IsObjectNode(node) /\ ~IsArrayNode(node)) =>
              /\ cmd.status = "Path"
              /\ result = NotAContainer(path, KindOfNode(node))
              /\ KindOfNode(node) \notin {"Object", "Array"}
        /\ IsObjectNode(node) =>
              /\ cmd.status = "Ok"
              /\ cmd.listed = [j \in 1..Len(node.keys) |-> Key(node.keys[j])]
        /\ IsArrayNode(node) =>
              /\ cmd.status = "Ok"
              /\ cmd.listed = [j \in 1..Len(node.kids) |-> Index(j - 1)]

\* list a.b on a TOML document whose a.b is a string
C17_Witness ==
    /\ pc = "listed" /\ backend = "toml"
    /\ Len(path) = 2
    /\ cmd.status = "Path"
    /\ result = NotAContainer(path, "String")
    /\ cfgerr = ConfigError("Path", "NotAContainer", 0)

\* ===================================================== resolution, whole
\* C23: on a non-empty path get_json_at_path returns Ok exactly when every
\* segment resolves, and then the node the segments lead to from the root,
\* a member for a Key and an element for an Index; it changes neither the
\* document nor the path.
C23_JsonReturnsTheNode ==
    /\ [](( backend = "json" /\ pc = "done" /\ path # <<>>) =>
             /\ result.tag = "Ok" <=> StructAt(root, path).ok
             /\ result.tag = "Ok" => out = JsonCursor(StructAt(root, path).node))
    /\ [][backend = "json" => (root' = root /\ path' = path)]_vars

\* {"a": [x, "s"]}: a[1] is "s"
C23_Witness ==
    /\ backend = "json" /\ pc = "done" /\ result.tag = "Ok"
    /\ root.t = "Object"
    /\ path = <<Key("a"), Index(1)>>
    /\ out.node = JStr

\* a datetime occurs in the TOML node
RECURSIVE HasDatetime(_)
HasDatetime(node) ==
    \/ node.it = "Value" /\ node.vt = "Datetime"
    \/ \E j \in 1..Len(node.kids) : HasDatetime(node.kids[j])

\* the JSON document of the same shape as a TOML node: tables and inline
\* tables as objects, arrays and arrays of tables as arrays
RECURSIVE SameShapeJson(_)
SameShapeJson(node) ==
    LET kids == [j \in 1..Len(node.kids) |-> SameShapeJson(node.kids[j])] IN
    CASE node.it = "None" -> JNull
      [] node.it = "Table" -> JObj(node.keys, kids)
      [] node.it = "ArrayOfTables" -> JArr(kids)
      [] node.it = "Value" /\ node.vt = "InlineTable" -> JObj(node.keys, kids)
      [] node.it = "Value" /\ node.vt = "Array" -> JArr(kids)
      [] node.it = "Value" /\ node.vt = "Boolean" -> JBool
      [] node.it = "Value" /\ node.vt = "Integer" -> JInt
      [] node.it = "Value" /\ node.vt = "Float" -> JFloat
      [] OTHER -> JStr

\* C24: on a TOML document without datetimes get_toml_at_path returns what
\* get_json_at_path returns on the JSON document of the same shape and the
\* same path: Ok, or the same PathError with the same prefix, key, index,
\* len and found kind.
C24_BackendsAgree ==
    (backend = "toml" /\ pc = "done" /\ ~HasDatetime(root)) =>
        result = get_json_at_path(SameShapeJson(root), path).result

\* [[t]] with one table, index 1: out of bounds of length 1 on both backends
C24_Witness ==
    /\ backend = "toml" /\ pc = "done"
    /\ root.it = "ArrayOfTables" /\ ~HasDatetime(root)
    /\ path = <<Index(1)>>
    /\ result = oob(<<>>, 1, 1)

\* a successful loop iteration of get_toml_at_path is taking place
TomlStepMoves == backend = "toml" /\ pc = "loop" /\ i' = i + 1

\* C27: a successful step from a Value cursor gives a Value cursor, so a
\* path that goes through a value (an entry holding an inline table or an
\* array, or anything inside one) ends at a Value cursor.
C27_ValueCursorAbsorbing ==
    /\ [][(TomlStepMoves /\ cursor.c = "Value") => cursor'.c = "Value"]_vars
    /\ []((/\ backend = "toml" /\ pc = "done" /\ result.tag = "Ok"
           /\ \E n \in 0..(Len(path) - 1) :
                 StructAt(root, SubSeq(path, 1, n)).node.it = "Value")
          => out.c = "Value")

\* a = { a = { a = 1 } }: a.a.a is a member of the inline table a.a, which
\* is itself a member of the inline table a
C27_Witness ==
    /\ backend = "toml" /\ pc = "done" /\ result.tag = "Ok"
    /\ path = <<Key("a"), Key("a"), Key("a")>>
    /\ root.it = "Table" /\ root.kids[1].kids[1].vt = "InlineTable"
    /\ out.c = "Value"

\* C28: get_toml_at_path returns TomlAt::Table exactly when the final
\* segment is an Index applied to an array of tables; resolution starts at
\* an Item cursor and a Key step never gives a Table cursor.
C28_TableOnlyFromArrayOfTables ==
    /\ []((backend = "toml" /\ pc = "done" /\ result.tag = "Ok") =>
             (out.c = "Table" <=>
                 /\ FinalSeg(path).seg = "Index"
                 /\ StructAt(root, ParentPath(path)).node.it = "ArrayOfTables"))
    /\ []((backend = "toml" /\ pc = "loop" /\ i = 1) => cursor.c = "Item")
    /\ [][(TomlStepMoves /\ path[i].seg = "Key") => cursor'.c # "Table"]_vars

\* a = [[...]]: a[0] is returned as a Table
C28_Witness ==
    /\ backend = "toml" /\ pc = "done" /\ result.tag = "Ok"
    /\ path = <<Key("a"), Index(0)>>
    /\ root.kids[1].it = "ArrayOfTables"
    /\ out.c = "Table"

\* the kind a serde_json Number must classify as: an integer that fits i64
\* (every NegInt, and a PosInt below 2^63) is Int, a PosInt from 2^63 on is
\* Uint, a number held as f64 is Float
NumberKind(v) ==
    CASE v.n = "NegInt" -> "Int"
      [] v.n = "PosInt" /\ v.hi = 0 -> "Int"
      [] v.n = "PosInt" /\ v.hi = 1 -> "Uint"
      [] v.n = "Float" -> "Float"

\* C29: a JSON number is Int when it is an integer that fits i64, Uint only
\* when it is an integer from 2^63 to 2^64-1, Float otherwise; on TOML no
\* classification gives Uint, and Null is given to an absent item only.
C29_NumberKinds ==
    /\ (backend = "json" /\ pc = "classified" /\ out.node.t = "Number") =>
          kind = NumberKind(out.node)
    /\ (backend = "json" /\ pc = "classified" /\ kind = "Uint") =>
          (out.node.t = "Number" /\ out.node.n = "PosInt" /\ out.node.hi = 1)
    /\ (backend = "toml" /\ pc = "classified") =>
          /\ kind # "Uint"
          /\ kind = "Null" => out.node.it = "None"
    /\ (backend = "toml" /\ pc = "done" /\ result.tag \in {"NotAnObject", "NotAnArray"}) =>
          /\ result.found # "Uint"
          /\ result.found = "Null" => (cursor.c = "Item" /\ cursor.node.it = "None")

\* {"a": 2^63} read at a: Uint
C29_Witness ==
    /\ backend = "json" /\ pc = "classified"
    /\ path = <<Key("a")>>
    /\ out.node = JBig
    /\ kind = "Uint"

\* ================================================================ suggest
MaxWordLen == 2

MaxHay == 3

\* the needles and the candidates
Words == UNION {TextsOfLen({"a", "b"}, n) : n \in 0..MaxWordLen}

\* the candidate lists, in iteration order
Hays == UNION {TextsOfLen(Words, n) : n \in 0..MaxHay}

\* usize::abs_diff
abs_diff(a, b) == IF a >= b THEN a - b ELSE b - a

\* needle.chars().zip(h.chars()).take_while(|(a, b)| a == b).count(), from
\* position n on
RECURSIVE common_prefix_from(_, _, _)
common_prefix_from(needle, h, n) ==
    IF n <= Len(needle) /\ n <= Len(h) /\ needle[n] = h[n]
    THEN 1 + common_prefix_from(needle, h, n + 1)
    ELSE 0

\* Option<(usize, &str)>
NoBest == [some |-> FALSE, score |-> 0, h |-> <<>>]

SomeBest(score, h) == [some |-> TRUE, score |-> score, h |-> h]

\* the loop of suggest that also takes a candidate of equal score
RECURSIVE suggest_from_LastBest(_, _, _, _)
suggest_from_LastBest(needle, hay, n, best) ==
    IF n > Len(hay) THEN best
    ELSE LET h == hay[n]
             len_diff == abs_diff(ByteLen(needle), ByteLen(h))
             common_prefix == common_prefix_from(needle, h, 1)
             score == saturating_sub(len_diff, common_prefix)
         IN IF ~best.some \/ score <= best.score
            THEN suggest_from_LastBest(needle, hay, n + 1, SomeBest(score, h))
            ELSE suggest_from_LastBest(needle, hay, n + 1, best)

\* the loop of suggest from candidate n on
RECURSIVE suggest_from(_, _, _, _)
suggest_from(needle, hay, n, best) ==
    IF n > Len(hay) THEN best
    ELSE LET h == hay[n]
             len_diff == abs_diff(ByteLen(needle), ByteLen(h))
             common_prefix == common_prefix_from(needle, h, 1)
             score == saturating_sub(len_diff, common_prefix)
         IN IF ~best.some \/ score < best.score
            THEN suggest_from(needle, hay, n + 1, SomeBest(score, h))
            ELSE suggest_from(needle, hay, n + 1, best)

\* suggest(needle, hay)
suggest(needle, hay) == suggest_from(needle, hay, 1, NoBest)

\* a needle and its candidates
InitSuggest ==
    /\ src \in Words
    /\ \E hay \in Hays : cmd = [NoCmd EXCEPT !.op = "suggest", !.listed = hay]
    /\ pc = "suggest"
    /\ text = NoText
    /\ path = <<>> /\ NavIdle
    /\ cfgerr = NoError /\ code = -1
    /\ loc = NoLoc /\ disk = NoDisk /\ io = NoIo

\* suggest is called: None, or Some with the candidate in text
Suggest ==
    /\ pc = "suggest"
    /\ LET best == suggest(src, cmd.listed) IN
       /\ text' = best.h
       /\ cmd' = [cmd EXCEPT !.status = IF best.some THEN "Some" ELSE "None"]
    /\ pc' = "suggested"
    /\ UNCHANGED <<navvars, cfgerr, code, src, loc, disk, io>>

NextSuggest == Suggest

SpecSuggest == InitSuggest /\ [][NextSuggest]_vars

\* the length of the longest common prefix of two texts
CommonPrefixLen(a, b) ==
    CHOOSE k \in 0..Len(a) :
        /\ k <= Len(b)
        /\ \A j \in 1..k : a[j] = b[j]
        /\ (k < Len(a) /\ k < Len(b)) => a[k + 1] # b[k + 1]

\* absolute length difference minus common-prefix length, floored at 0
ScoreOf(needle, h) ==
    LET d == IF Len(needle) >= Len(h) THEN Len(needle) - Len(h) ELSE Len(h) - Len(needle)
        c == CommonPrefixLen(needle, h)
    IN IF d > c THEN d - c ELSE 0

\* C25: suggest returns None exactly when hay is empty, and otherwise the
\* first candidate in iteration order whose score is minimal, an element of
\* hay.
C25_FirstMinimalScore ==
    pc = "suggested" =>
        LET hay == cmd.listed IN
        /\ cmd.status = "None" <=> hay = <<>>
        /\ cmd.status = "Some" =>
              \E j \in 1..Len(hay) :
                 /\ text = hay[j]
                 /\ \A m \in 1..Len(hay) : ScoreOf(src, hay[m]) >= ScoreOf(src, hay[j])
                 /\ \A m \in 1..(j - 1) : ScoreOf(src, hay[m]) > ScoreOf(src, hay[j])

\* needle "ab" among "b", "aa", "ab": "aa" is the first with the least score
C25_Witness ==
    /\ pc = "suggested" /\ cmd.status = "Some"
    /\ src = <<"a", "b">>
    /\ cmd.listed = << <<"b">>, <<"a", "a">>, <<"a", "b">> >>
    /\ text = <<"a", "a">>

\* C26: of two candidates of equal length suggest never returns the one
\* whose common prefix with the needle is strictly shorter.
C26_LongerPrefixWins ==
    (pc = "suggested" /\ cmd.status = "Some") =>
        \A j, m \in 1..Len(cmd.listed) :
            (/\ Len(cmd.listed[j]) = Len(cmd.listed[m])
             /\ CommonPrefixLen(src, cmd.listed[j]) < CommonPrefixLen(src, cmd.listed[m]))
            => text # cmd.listed[j]

\* =============================================================== messages
\* The Display of the errors.  A message is the sequence of the pieces the
\* format string writes: its literal texts (a newline of the format string
\* being a piece of its own), the field values, and the characters of the
\* snippet.  The backquotes of the format strings are written as quotes.
Lit(str) == [lit |-> str, arg |-> 0]

\* the k-th field the format string names
Arg(k) == [lit |-> "", arg |-> k]

\* {snippet}
Snip == [lit |-> "", arg |-> -1]

\* #[error(...)] of UsageError
UsageTemplate(v) ==
    CASE v = "MissingFlag" ->
            <<Lit("UsageError:"), Lit(" missing required flag "), Arg(1), Lit(". "),
              Arg(2)>>
      [] v = "InvalidChoice" ->
            <<Lit("UsageError:"), Lit(" invalid value '"), Arg(1), Lit("' for "), Arg(2),
              Lit(". Valid options: "), Arg(3),
              Lit(". Example: --format json")>>
      [] v = "ConflictingFlags" ->
            <<Lit("UsageError:"), Lit(" flags "), Arg(1), Lit(" and "), Arg(2),
              Lit(" cannot be used together. "), Arg(3)>>
      [] v = "MissingArgument" ->
            <<Lit("UsageError:"), Lit(" missing argument "), Arg(1), Lit(". Example: "),
              Arg(2)>>
      [] v = "InvalidPathSyntax" ->
            <<Lit("UsageError:"), Lit(" invalid key-path syntax: '"), Arg(1),
              Lit("'. Example: "), Arg(2)>>

\* #[error(...)] of FileIoError
FileIoTemplate(v) ==
    CASE v = "ReadFailed" ->
            <<Lit("FileIoError:"), Lit(" could not read "), Arg(1), Lit(": "), Arg(2),
              Lit(". "), Arg(3)>>
      [] v = "WriteFailed" ->
            <<Lit("FileIoError:"), Lit(" could not write "), Arg(1), Lit(": "), Arg(2),
              Lit(". "), Arg(3)>>
      [] v = "TempCreateFailed" ->
            <<Lit("FileIoError:"), Lit(" could not create temp file near "), Arg(1),
              Lit(": "), Arg(2), Lit(". "), Arg(3)>>
      [] v = "AtomicReplaceFailed" ->
            <<Lit("FileIoError:"), Lit(" could not atomically replace "), Arg(1),
              Lit(" (from "), Arg(2), Lit("): "), Arg(3), Lit(". "), Arg(4)>>

\* #[error(...)] of ParseError
ParseTemplate(v) ==
    CASE v = "UnexpectedToken" ->
            <<Arg(1), Lit(" parse error at "), Arg(2),
              Lit(": unexpected token: expected "), Arg(3), Lit(", found "),
              Arg(4), Lit("\n"), Snip>>
      [] v = "UnexpectedEof" ->
            <<Arg(1), Lit(" parse error at "), Arg(2), Lit(": unexpected end of input"),
              Lit("\n"), Snip>>
      [] v = "UnterminatedString" ->
            <<Arg(1), Lit(" parse error at "), Arg(2),
              Lit(": unterminated string literal"), Lit("\n"), Snip>>
      [] v = "InvalidEscape" ->
            <<Arg(1), Lit(" parse error at "), Arg(2),
              Lit(": invalid escape sequence: "), Arg(3), Lit("\n"), Snip>>
      [] v = "TrailingContent" ->
            <<Arg(1), Lit(" parse error at "), Arg(2),
              Lit(": trailing content after document"), Lit("\n"), Snip>>
      [] v = "SyntaxError" ->
            <<Arg(1), Lit(" parse error at "), Arg(2), Lit(": syntax error: expected "),
              Arg(3), Lit(", found "), Arg(4), Lit("\n"), Snip>>
      [] v = "ForeignParseError" ->
            <<Arg(1), Lit(" parse error at "), Arg(2), Lit(": "), Arg(3), Lit("\n"),
              Snip>>

\* #[error(...)] of PathError
PathTemplate(v) ==
    CASE v = "EmptyPath" ->
            <<Lit("Empty path is not allowed")>>
      [] v = "NotAnObject" ->
            <<Lit("Not an object at "), Arg(1), Lit(": cannot access key '"), Arg(2),
              Lit("' on "), Arg(3)>>
      [] v = "NotAnArray" ->
            <<Lit("Not an array at "), Arg(1), Lit(": cannot access index ["), Arg(2),
              Lit("] on "), Arg(3)>>
      [] v = "NotAContainer" ->
            <<Lit("Not a container at "), Arg(1),
              Lit(": attempted to list children on a scalar "), Arg(2)>>
      [] v = "KeyNotFound" ->
            <<Lit("Key not found at "), Arg(1), Lit(": missing key '"), Arg(2), Lit("'")>>
      [] v = "IndexOutOfBounds" ->
            <<Lit("Index out of bounds at "), Arg(1), Lit(": index "), Arg(2),
              Lit(" >= len "), Arg(3)>>
      [] v = "InvalidSegment" ->
            <<Lit("Invalid path segment at "), Arg(1), Lit(": segment '"), Arg(2),
              Lit("' is not valid ("), Arg(3), Lit(")")>>
      [] v = "Unsupported" ->
            <<Lit("Unsupported path operation at "), Arg(1), Lit(": "), Arg(2)>>

\* #[error(...)] of TypeError
TypeTemplate(v) ==
    CASE v = "TypeMismatch" ->
            <<Lit("Type mismatch at "), Arg(1), Lit(": expected "), Arg(2),
              Lit(", found "), Arg(3)>>
      [] v = "NumberOutOfRange" ->
            <<Lit("Number out of range at "), Arg(1), Lit(": value "), Arg(2),
              Lit(" is not within "), Arg(3), Lit(" bounds"), Arg(4)>>
      [] v = "InvalidEnumVariant" ->
            <<Lit("Invalid enum variant at "), Arg(1), Lit(": found "), Arg(2),
              Lit("; allowed: "), Arg(3)>>
      [] v = "InvalidPattern" ->
            <<Lit("Invalid pattern at "), Arg(1), Lit(": expected "), Arg(2),
              Lit(", found "), Arg(3)>>
      [] v = "ArrayElementTypeMismatch" ->
            <<Lit("Array element type mismatch at "), Arg(1), Lit("["), Arg(2),
              Lit("]: expected "), Arg(3), Lit(", found "), Arg(4)>>
      [] v = "ObjectFieldTypeMismatch" ->
            <<Lit("Field type mismatch at "), Arg(1), Lit(": field '"), Arg(2),
              Lit("' expected "), Arg(3), Lit(", found "), Arg(4)>>
      [] v = "NullNotAllowed" ->
            <<Lit("Null not allowed at "), Arg(1)>>

\* #[error(...)] of NotSupportedError
NotSupportedTemplate(v) ==
    CASE v = "Format" ->
            <<Lit("Not supported for format "), Arg(1), Lit(": "), Arg(2), Lit(". "),
              Arg(3)>>
      [] v = "Command" ->
            <<Lit("Command not supported: "), Arg(1), Lit(". "), Arg(2)>>
      [] v = "Option" ->
            <<Lit("Option not supported: "), Arg(1), Lit(". "), Arg(2)>>
      [] v = "Feature" ->
            <<Lit("Feature not supported: "), Arg(1), Lit(". "), Arg(2)>>
      [] v = "Platform" ->
            <<Lit("Platform not supported: "), Arg(1), Lit(" for "), Arg(2), Lit(". "),
              Arg(3)>>
      [] v = "Version" ->
            <<Arg(1), Lit(" version not supported: found "), Arg(2), Lit(", requires "),
              Arg(3), Lit(". "), Arg(4)>>
      [] v = "Combination" ->
            <<Lit("This combination is not supported: "), Arg(1), Lit(". "), Arg(2)>>

\* the format string of a variant
Template(cat, v) ==
    CASE cat = "Usage" -> UsageTemplate(v)
      [] cat = "FileIO" -> FileIoTemplate(v)
      [] cat = "Parse" -> ParseTemplate(v)
      [] cat = "Path" -> PathTemplate(v)
      [] cat = "Type" -> TypeTemplate(v)
      [] cat = "NotSupported" -> NotSupportedTemplate(v)

\* field values, none with a newline
FieldTexts ==
    <<"--format <json|toml>", "Use --format when file extension is not json/toml",
      "cfg.json", "servers[0].host", "int", "">>

\* the rendered value of field k of an error whose fields are the detail-th
\* choice; a ParseError starts with its format ({format:?}) and its location
FieldText(e, k) ==
    IF e.cat = "Parse" /\ k <= 2
    THEN IF k = 2 THEN "1:1" ELSE IF e.detail % 2 = 0 THEN "Json" ELSE "Toml"
    ELSE FieldTexts[((2 * e.detail + k - 1) % Len(FieldTexts)) + 1]

\* Display of the foreign error a ParseError keeps as its source: what
\* serde_json::Error and toml_edit::TomlError print, the second on several
\* lines
ForeignDisplays ==
    <<<<"expected value at line 1 column 2">>,
      <<"TOML parse error at line 1, column 2", "\n", "  |", "\n", "1 | a", "\n",
        "  |  ^", "\n", "expected '.', '='", "\n">>>>

\* {source} of InvalidEscape and ForeignParseError
Source_fmt(e) == ForeignDisplays[(e.detail % 2) + 1]

\* what field k writes
Field_fmt(e, k) ==
    IF e.cat = "Parse" /\ k = 3 /\ e.variant \in {"InvalidEscape", "ForeignParseError"}
    THEN Source_fmt(e)
    ELSE <<FieldText(e, k)>>

\* what the pieces of a format string write, from piece n on
RECURSIVE write_from(_, _, _, _)
write_from(t, e, snippet, n) ==
    IF n > Len(t) THEN <<>>
    ELSE (CASE t[n].arg = 0 -> <<t[n].lit>>
            [] t[n].arg = -1 -> snippet
            [] OTHER -> Field_fmt(e, t[n].arg))
         \o write_from(t, e, snippet, n + 1)

\* Display of UsageError, FileIoError, ParseError, PathError, TypeError and
\* NotSupportedError
Error_fmt(e, snippet) == write_from(Template(e.cat, e.variant), e, snippet, 1)

\* Display of ConfigError with a prefix of its own instead of transparent
ConfigError_fmt_Prefixed(e, snippet) == <<"ConfigError: ">> \o Error_fmt(e, snippet)

\* Display of ConfigError: #[error(transparent)] on every variant
ConfigError_fmt(e, snippet) == Error_fmt(e, snippet)

\* the snippets a ParseError carries
Snippets ==
    {extract_snippet(t, 1, c) : t \in {<<>>, <<"a">>, <<"a", "b">>}, c \in 1..2}

\* an error about to be shown, as itself or wrapped in ConfigError
InitMessage ==
    /\ cfgerr \in ConfigErrors
    /\ src \in (IF cfgerr.cat = "Parse" THEN Snippets ELSE {NoText})
    /\ \E w \in {"inner", "wrapped"} : cmd = [NoCmd EXCEPT !.op = w]
    /\ pc = "error"
    /\ text = NoText
    /\ path = <<>> /\ NavIdle
    /\ code = -1
    /\ loc = NoLoc /\ disk = NoDisk /\ io = NoIo

\* format!("{}", err) on the wrapped error
ShowInner ==
    /\ pc = "error" /\ cmd.op = "inner"
    /\ text' = Error_fmt(cfgerr, src)
    /\ pc' = "shown"
    /\ UNCHANGED <<navvars, cfgerr, code, src, loc, disk, cmd, io>>

\* format!("{}", err) on the ConfigError
ShowConfigError ==
    /\ pc = "error" /\ cmd.op = "wrapped"
    /\ text' = ConfigError_fmt(cfgerr, src)
    /\ pc' = "shown"
    /\ UNCHANGED <<navvars, cfgerr, code, src, loc, disk, cmd, io>>

NextMessage == ShowInner \/ ShowConfigError

SpecMessage == InitMessage /\ [][NextMessage]_vars

\* the positions of a message that hold a newline
NewlinesAt(msg) == {j \in 1..Len(msg) : msg[j] = "\n"}

\* C21: the message of a Usage, FileIO, Path, Type or NotSupported error
\* (its field values holding no newline) has no newline; in the message of
\* a Parse error the only newlines are the one the snippet is appended
\* after and those of the snippet.  Fails for a Parse error whose source
\* prints on several lines.
C21_OneLineExceptParse ==
    pc = "shown" =>
        IF cfgerr.cat = "Parse"
        THEN LET sep == Len(text) - Len(src) IN
             /\ sep \in NewlinesAt(text)
             /\ SubSeq(text, sep + 1, Len(text)) = src
             /\ \A j \in NewlinesAt(text) : j >= sep
        ELSE NewlinesAt(text) = {}

====
